---------------------------- MODULE Spec2Model ----------------------------
(***************************************************************************)
(* DIDMan: the cache-coherent fetch / filter / report pipeline.            *)
(*                                                                         *)
(*   data_fetcher.py      check_cache_status, load/save_data_to_cache,     *)
(*                        run_data_fetch                                   *)
(*   cli_master.py        cli_app                                          *)
(*   data_fetch_script.py find_rows_with_target_day_interactive            *)
(*   report_cli.py        load_data_from_cache (the exiting loader)        *)
(*   report_generator.py  filter_rows_by_day                               *)
(*                                                                         *)
(* A cell is a sequence of one-character strings, a row a sequence of      *)
(* cells, a sheet a sequence of rows, a snapshot a function from sheet     *)
(* names to sheets.  Python's 0-based index k is the TLA+ index k + 1.     *)
(***************************************************************************)
EXTENDS Integers, Sequences, FiniteSets, TLC

VARIABLES
    \* ---- the environment
    file,             \* the cache file: [kind: missing | corrupt | json, data: snapshot]
    mtime,            \* os.path.getmtime of the cache file
    now,              \* datetime.now()
    today,            \* date.today() as the run has read it: [year, month, day]
    \* ---- the running program
    prog,             \* the entry point that was started
    pc,               \* its position
    is_cache_valid,   \* cli_app: first component of check_cache_status
    mod_time,         \* cli_app: second component of check_cache_status
    global_cache,     \* run_data_fetch / find_rows...: the in-memory snapshot
    all_worksheets,   \* the titles of the worksheets, in spreadsheet order
    idx,              \* the position of the for loop in all_worksheets (1-based)
    report,           \* the counters of the run
    target_day_number,\* data_fetch_script: config['TARGET_DAY_AUTOMATIC']
    report_cache,     \* cli_app / report_cli: the snapshot the report is computed from
    summary,          \* the counts the final summary of a fetch run prints
    aggregated_data,  \* run_report_generator: the records of the last request
    terminal,         \* the lines format_and_print_terminal_report printed last
    widths,           \* its local `widths` when it returned
    \* ---- history of the run (not program state)
    loaded,           \* what load_data_from_cache returned at the start of the fetch run
    reads,            \* the reads of the cache file's content: <<[by, fetched]>>
    fetchLog,         \* the get_all_values calls: <<[name, ok]>>
    handled,          \* the sheet titles the loop has gone through
    saves,            \* the save_data_to_cache calls: <<[before, snap, result, after]>>
    sleeps,           \* the sheet titles after whose fetch time.sleep was called
    previous,         \* what the cli_app run before this one did
    \* ---- filter_rows_by_day applied to drawn inputs
    f_sheet_data, f_target_day, f_matching_rows, f_pc,
    \* ---- check_cache_status applied to drawn inputs
    s_exists, s_mtime, s_now, s_result, s_pc,
    \* ---- load / save / load of the cache file, as text
    rt_file,          \* [exists, text]: the characters of the cache file
    rt_first,         \* what the first load_data_from_cache returned
    rt_second,        \* what the load after the save returned
    rt_outcome,       \* how the save went
    rt_pc,
    \* ---- aggregate_report_data and the renderer applied to drawn inputs
    rg_items,         \* global_cache.items(): <<[key, val]>> in dict order
    rg_target_day,
    rg_pc,
    \* ---- two run_data_fetch processes on one cache file
    o_file,           \* [exists, text]: the characters of the shared cache file
    o_pc,             \* the position of each process
    o_global_cache,   \* the global_cache of each process
    o_idx,            \* the position of each process in all_worksheets
    o_fetched,        \* history: the titles each process got from get_all_values
    o_writes          \* history: the writes to the file in order, <<[run, text]>>

envVars    == <<file, mtime, now, today>>
progVars   == <<prog, pc, is_cache_valid, mod_time, global_cache, all_worksheets,
                idx, report, target_day_number, report_cache>>
histVars   == <<loaded, reads, fetchLog, handled, saves, sleeps>>
filterVars == <<f_sheet_data, f_target_day, f_matching_rows, f_pc>>
statusVars == <<s_exists, s_mtime, s_now, s_result, s_pc>>
rtVars     == <<rt_file, rt_first, rt_second, rt_outcome, rt_pc>>
outVars    == <<aggregated_data, terminal, widths>>
rgVars     == <<rg_items, rg_target_day, rg_pc>>
ovVars     == <<o_file, o_pc, o_global_cache, o_idx, o_fetched, o_writes>>
labVars    == <<filterVars, statusVars, rtVars, rgVars, ovVars, previous>>
vars       == <<envVars, progVars, histVars, summary, outVars, labVars>>

-----------------------------------------------------------------------------
(* Configuration (CONFIG / MASTER_CONFIG)                                  *)

DATE_COLUMN_INDEX    == 1
CACHE_LIFETIME_HOURS == 24

(* Bounds of the model                                                     *)
MaxRows   == 4     \* longest sheet_data handed to filter_rows_by_day
MaxSheets == 2     \* number of distinct sheet titles
MaxClock  == 26    \* latest clock reading (hours) drawn for check_cache_status

-----------------------------------------------------------------------------
(* Text helpers                                                            *)

Digits == {"0", "1", "2", "3", "4", "5", "6", "7", "8", "9"}

DigitVal(c) ==
    CASE c = "0" -> 0 [] c = "1" -> 1 [] c = "2" -> 2 [] c = "3" -> 3
      [] c = "4" -> 4 [] c = "5" -> 5 [] c = "6" -> 6 [] c = "7" -> 7
      [] c = "8" -> 8 [] c = "9" -> 9

AllDigits(s) == \A k \in 1..Len(s) : s[k] \in Digits

RECURSIVE NumVal(_)
NumVal(s) == IF s = <<>> THEN 0
             ELSE 10 * NumVal(SubSeq(s, 1, Len(s) - 1)) + DigitVal(s[Len(s)])

Whitespace == {" ", "\t", "\n"}

(* str.strip(): leading and trailing whitespace removed *)
RECURSIVE LStrip(_)
LStrip(s) == IF s # <<>> /\ s[1] \in Whitespace THEN LStrip(Tail(s)) ELSE s

RECURSIVE RStrip(_)
RStrip(s) == IF s # <<>> /\ s[Len(s)] \in Whitespace
             THEN RStrip(SubSeq(s, 1, Len(s) - 1)) ELSE s

Strip(s) == RStrip(LStrip(s))

-----------------------------------------------------------------------------
(* datetime.strptime(s, '%m/%d/%Y')                                        *)
(*   %m  1[0-2]|0[1-9]|[1-9]        %d  3[01]|[12]\d|0[1-9]|[1-9]| [1-9]   *)
(*   %Y  \d\d\d\d                   the whole string must be consumed,     *)
(*   then date(year, month, day) must exist (ValueError otherwise).        *)

SlashPositions(s) == {k \in 1..Len(s) : s[k] = "/"}

MonthField(t) ==
    /\ Len(t) \in {1, 2}
    /\ AllDigits(t)
    /\ NumVal(t) \in 1..12

DayField(t) ==
    \/ /\ Len(t) \in {1, 2}
       /\ AllDigits(t)
       /\ NumVal(t) \in 1..31
    \/ /\ Len(t) = 2
       /\ t[1] = " "
       /\ t[2] \in Digits \ {"0"}

DayFieldVal(t) == IF t[1] = " " THEN DigitVal(t[2]) ELSE NumVal(t)

YearField(t) == Len(t) = 4 /\ AllDigits(t)

IsLeap(y) == (y % 4 = 0) /\ ((y % 100 # 0) \/ (y % 400 = 0))

DaysInMonth(y, m) ==
    IF m = 2 THEN (IF IsLeap(y) THEN 29 ELSE 28)
    ELSE IF m \in {4, 6, 9, 11} THEN 30 ELSE 31

ValueError == [ok |-> FALSE, year |-> 0, month |-> 0, day |-> 0]

strptime(s) ==
    LET P == SlashPositions(s) IN
    IF Cardinality(P) # 2 THEN ValueError
    ELSE
      LET p1 == CHOOSE k \in P : \A j \in P : k <= j
          p2 == CHOOSE k \in P : \A j \in P : k >= j
          mt == SubSeq(s, 1, p1 - 1)
          dt == SubSeq(s, p1 + 1, p2 - 1)
          yt == SubSeq(s, p2 + 1, Len(s))
      IN IF ~(MonthField(mt) /\ DayField(dt) /\ YearField(yt)) THEN ValueError
         ELSE LET y == NumVal(yt)
                  m == NumVal(mt)
                  d == DayFieldVal(dt)
              IN IF y >= 1 /\ d <= DaysInMonth(y, m)
                 THEN [ok |-> TRUE, year |-> y, month |-> m, day |-> d]
                 ELSE ValueError

-----------------------------------------------------------------------------
(* filter_rows_by_day: the loop over sheet_data[1:], appending in order    *)

(* fault variant: a short row or a date that does not parse ends the loop *)
RECURSIVE filter_loop_break(_, _, _)
filter_loop_break(rest, target_day, matching_rows) ==
    IF rest = <<>> THEN matching_rows
    ELSE
      LET row == Head(rest) IN
      IF Len(row) > DATE_COLUMN_INDEX
      THEN LET sheet_date_obj == strptime(Strip(row[DATE_COLUMN_INDEX + 1])) IN
           IF ~sheet_date_obj.ok THEN matching_rows
           ELSE IF sheet_date_obj.day = target_day
           THEN filter_loop_break(Tail(rest), target_day,
                                  Append(matching_rows, row))
           ELSE filter_loop_break(Tail(rest), target_day, matching_rows)
      ELSE matching_rows

RECURSIVE filter_loop(_, _, _)
filter_loop(rest, target_day, matching_rows) ==
    IF rest = <<>> THEN matching_rows
    ELSE
      LET row == Head(rest) IN
      IF Len(row) > DATE_COLUMN_INDEX
      THEN LET sheet_date_obj == strptime(Strip(row[DATE_COLUMN_INDEX + 1])) IN
           IF sheet_date_obj.ok /\ sheet_date_obj.day = target_day
           THEN filter_loop(Tail(rest), target_day, Append(matching_rows, row))
           ELSE filter_loop(Tail(rest), target_day, matching_rows)
      ELSE filter_loop(Tail(rest), target_day, matching_rows)

(* sheet_data[1:] of an empty list is the empty list *)
PySliceFrom1(sheet_data) == IF sheet_data = <<>> THEN <<>> ELSE Tail(sheet_data)

(* fault variant: a row equal to one already kept is dropped *)
RECURSIVE Dedup(_, _)
Dedup(rows, kept) ==
    IF rows = <<>> THEN kept
    ELSE IF \E k \in 1..Len(kept) : kept[k] = Head(rows)
         THEN Dedup(Tail(rows), kept)
         ELSE Dedup(Tail(rows), Append(kept, Head(rows)))

filter_rows_by_day_dedup(sheet_data, target_day) ==
    Dedup(filter_loop(PySliceFrom1(sheet_data), target_day, <<>>), <<>>)

(* fault variant: the loop runs over sheet_data, the first row included *)
filter_rows_by_day_keep_first(sheet_data, target_day) ==
    filter_loop(sheet_data, target_day, <<>>)

filter_rows_by_day(sheet_data, target_day) ==
    filter_loop(PySliceFrom1(sheet_data), target_day, <<>>)


-----------------------------------------------------------------------------
(* check_cache_status: (is_valid, mod_time), datetime.min when no file     *)

DatetimeMin == -1     \* datetime.min: earlier than every clock reading

(* fault variant: a cache exactly as old as the lifetime counts as fresh *)
check_cache_status_inclusive(exists, mt, nw) ==
    IF ~exists
    THEN [raised |-> FALSE, is_valid |-> FALSE, mod_time |-> DatetimeMin]
    ELSE [raised |-> FALSE,
          is_valid |-> (nw - mt) <= CACHE_LIFETIME_HOURS,
          mod_time |-> mt]

(* fault variant: no os.path.exists test, getmtime raises on a missing file *)
check_cache_status_unguarded(exists, mt, nw) ==
    IF ~exists
    THEN [raised |-> TRUE, is_valid |-> FALSE, mod_time |-> DatetimeMin]
    ELSE [raised |-> FALSE,
          is_valid |-> (nw - mt) < CACHE_LIFETIME_HOURS,
          mod_time |-> mt]

(* fault variant: an absent cache file is reported fresh *)
check_cache_status_absent_fresh(exists, mt, nw) ==
    IF ~exists
    THEN [raised |-> FALSE, is_valid |-> TRUE, mod_time |-> DatetimeMin]
    ELSE [raised |-> FALSE,
          is_valid |-> (nw - mt) < CACHE_LIFETIME_HOURS,
          mod_time |-> mt]

check_cache_status(exists, mt, nw) ==
    IF ~exists
    THEN [raised |-> FALSE, is_valid |-> FALSE, mod_time |-> DatetimeMin]
    ELSE [raised |-> FALSE,
          is_valid |-> (nw - mt) < CACHE_LIFETIME_HOURS,
          mod_time |-> mt]

-----------------------------------------------------------------------------
(* The cache file and its readers and writer                               *)

(*   missing  no file at the cache path                                    *)
(*   corrupt  a file whose text json.load rejects (empty, or the prefix    *)
(*            of a JSON object that an interrupted write leaves)           *)
(*   json     a file holding the JSON object of a snapshot                 *)

EmptySnapshot == [n \in {} |-> <<>>]

MissingFile   == [kind |-> "missing", data |-> EmptySnapshot]
CorruptFile   == [kind |-> "corrupt", data |-> EmptySnapshot]
JsonFile(snapshot) == [kind |-> "json", data |-> snapshot]

FileExists(f) == f.kind # "missing"

(* A loader returns [exit, value]: exit is TRUE when the call does not     *)
(* return to its caller (sys.exit or an exception that leaves it).         *)

(* fault variant: only a missing file is tolerated, a JSONDecodeError escapes *)
load_data_from_cache_strict(f) ==
    IF f.kind = "json" THEN [exit |-> FALSE, value |-> f.data]
    ELSE IF f.kind = "missing" THEN [exit |-> FALSE, value |-> EmptySnapshot]
    ELSE [exit |-> TRUE, value |-> EmptySnapshot]

(* data_fetcher.load_data_from_cache: open or json.load raising gives {} *)
load_data_from_cache(f) ==
    IF f.kind = "json" THEN [exit |-> FALSE, value |-> f.data]
    ELSE [exit |-> FALSE, value |-> EmptySnapshot]

(* data_fetch_script.load_data_from_cache: os.path.exists, then the same *)
script_load_data_from_cache(f) ==
    IF ~FileExists(f) THEN [exit |-> FALSE, value |-> EmptySnapshot]
    ELSE IF f.kind = "json" THEN [exit |-> FALSE, value |-> f.data]
    ELSE [exit |-> FALSE, value |-> EmptySnapshot]

(* report_cli.load_data_from_cache: sys.exit(1) on a missing or unreadable file *)
report_cli_load_data_from_cache(f) ==
    IF ~FileExists(f) THEN [exit |-> TRUE, value |-> EmptySnapshot]
    ELSE IF f.kind = "json" THEN [exit |-> FALSE, value |-> f.data]
    ELSE [exit |-> TRUE, value |-> EmptySnapshot]

(* save_data_to_cache: open(filepath, 'w') truncates the file, json.dump   *)
(* then streams the text into it; every exception is caught and printed.   *)
(*   ok           the whole snapshot is written                            *)
(*   open_fails   open raises: the file is as it was                       *)
(*   write_fails  the write raises after open: a truncated text remains,   *)
(*                which is no JSON document                                *)
SaveOutcomes == {"ok", "open_fails", "write_fails"}

save_data_to_cache(cache_data, f, outcome) ==
    CASE outcome = "ok"          -> JsonFile(cache_data)
      [] outcome = "open_fails"  -> f
      [] outcome = "write_fails" -> CorruptFile

SaveMtime(mt, nw, outcome) == IF outcome = "open_fails" THEN mt ELSE nw

SaveRecord(cache_data, f, outcome) ==
    [before |-> f, snap |-> cache_data, result |-> outcome,
     after |-> save_data_to_cache(cache_data, f, outcome)]

(* global_cache[sheet_name] = sheet_data *)
Put(cache, sheet_name, sheet_data) ==
    [n \in (DOMAIN cache) \cup {sheet_name} |->
        IF n = sheet_name THEN sheet_data ELSE cache[n]]

-----------------------------------------------------------------------------
(* Data the model draws from                                               *)

Cell_did     == <<"D", "1">>
Cell_x       == <<"x">>
Cell_hdr     == <<"D", "a", "t", "e">>
Date_0318_24 == <<"0", "3", "/", "1", "8", "/", "2", "0", "2", "4">>
Date_1118_25 == <<"1", "1", "/", "1", "8", "/", "2", "0", "2", "5">>
Date_0319_24 == <<"0", "3", "/", "1", "9", "/", "2", "0", "2", "4">>
Date_padded  == <<" ", "3", "/", "1", "8", "/", "2", "0", "2", "4", " ">>
Date_0230_24 == <<"0", "2", "/", "3", "0", "/", "2", "0", "2", "4">>
Price_10     == <<"$", "1", "0", ".", "0", "0">>
Price_1234   == <<"$", "1", ",", "2", "3", "4", ".", "5", "0">>
Price_5      == <<"$", "5", ".", "0", "0">>
Price_abc    == <<"a", "b", "c">>

HeaderRow == <<Cell_did, Cell_hdr, Cell_x, Cell_x>>
Row_a     == <<Cell_did, Date_0318_24, Cell_x, Price_10>>
Row_b     == <<Cell_did, Date_1118_25, Cell_x, Price_1234>>
Row_c     == <<Cell_did, Date_0319_24, Cell_x, Price_5>>
Row_pad   == <<Cell_did, Date_padded, Cell_x, Price_abc>>
Row_short == <<Cell_did>>
Row_bad   == <<Cell_did, Date_0230_24, Cell_x, Price_5>>

RowPool    == {HeaderRow, Row_a, Row_b, Row_c, Row_pad, Row_short, Row_bad}
TargetDays == {18, 19, 30}

SeqsUpTo(S, n) == UNION {[1..k -> S] : k \in 0..n}

(* what worksheet.get_all_values() can return *)
SheetChoices == {<<>>, <<HeaderRow>>, <<HeaderRow, Row_a>>}

TitlePool == <<"A", "B", "C", "D">>
Titles    == {TitlePool[k] : k \in 1..MaxSheets}

Snapshots == UNION {[D -> SheetChoices] : D \in SUBSET Titles}

(* spreadsheet.worksheets(): at least one worksheet, titles unique *)
WorksheetLists ==
    {ws \in SeqsUpTo(Titles, MaxSheets) :
        /\ ws # <<>>
        /\ \A a, b \in 1..Len(ws) : a # b => ws[a] # ws[b]}

FileStates == {MissingFile, CorruptFile} \cup {JsonFile(s) : s \in Snapshots}

Programs == {"cli_master", "data_fetcher", "data_fetch_script", "report_cli"}

StartPc(p) ==
    CASE p = "cli_master"        -> "cli_check"
      [] p = "data_fetcher"      -> "fetch_load"
      [] p = "data_fetch_script" -> "script_start"
      [] p = "report_cli"        -> "rcli_input"

NewReport ==
    [sheets_fetched |-> 0, total_sheets |-> 0, total_matches |-> 0,
     sheets_processed |-> 0, sheets_skipped_empty |-> 0,
     sheets_skipped_error |-> 0, sheets_loaded_from_cache |-> 0]

(* date.today() *)
DateMin == [year |-> 1, month |-> 1, day |-> 1]
Todays  == {[year |-> 2025, month |-> 2, day |-> 10],
            [year |-> 2024, month |-> 3, day |-> 18],
            [year |-> 2024, month |-> 4, day |-> 25]}

(* the final summary before it is printed *)
NoSummary == [printed |-> FALSE, labels |-> {}, target_day |-> 0, fetched |-> 0,
              from_cache |-> 0, failed |-> 0, matches |-> 0]

(* run_data_fetch: "Data Fetch Complete. Fetched/Updated N sheets." *)
FetchSummary(rep) ==
    [NoSummary EXCEPT !.printed = TRUE,
                      !.labels  = {"fetched"},
                      !.fetched = rep.sheets_fetched]

(* data_fetch_script: 6. Final Summary *)
ScriptSummaryOf(rep, target_day) ==
    [NoSummary EXCEPT !.printed    = TRUE,
                      !.labels     = {"target_day", "fetched", "from_cache",
                                      "matches"},
                      !.target_day = target_day,
                      !.fetched    = rep.sheets_processed,
                      !.from_cache = rep.sheets_loaded_from_cache,
                      !.matches    = rep.total_matches]

(* no cli_app run came before this one *)
NoPrevious == [ran |-> FALSE, is_cache_valid |-> FALSE, all_hits |-> FALSE,
               loaded |-> EmptySnapshot, saved |-> "none", now |-> 0]

NoResult == [raised |-> FALSE, is_valid |-> FALSE, mod_time |-> DatetimeMin]

-----------------------------------------------------------------------------
(* The cache file as text: json.dump(cache_data, f, indent=4) and          *)
(* json.load(f), for the values the cache holds (objects, arrays, strings) *)

JSON_INDENT == 4

QUOTE     == "\""
BACKSLASH == "\\"
NEWLINE   == "\n"
TAB       == "\t"

(* a JSON value: a str, a list of values, or a dict as its items in        *)
(* insertion order                                                         *)
JStr(chars)  == [t |-> "str",  v |-> chars]
JList(items) == [t |-> "list", v |-> items]
JDict(items) == [t |-> "dict", v |-> items]
EmptyDict    == JDict(<<>>)

RECURSIVE Concat(_)
Concat(parts) ==
    IF parts = <<>> THEN <<>> ELSE Head(parts) \o Concat(Tail(parts))

RECURSIVE Join(_, _)
Join(parts, sep) ==
    IF Len(parts) = 1 THEN parts[1]
    ELSE parts[1] \o sep \o Join(Tail(parts), sep)

(* json.encoder.ESCAPE_DCT *)
EscapeChar(c) ==
    CASE c = QUOTE     -> <<BACKSLASH, QUOTE>>
      [] c = BACKSLASH -> <<BACKSLASH, BACKSLASH>>
      [] c = NEWLINE   -> <<BACKSLASH, "n">>
      [] c = TAB       -> <<BACKSLASH, "t">>
      [] OTHER         -> <<c>>

EncodeString(s) ==
    <<QUOTE>> \o Concat([k \in 1..Len(s) |-> EscapeChar(s[k])]) \o <<QUOTE>>

NewlineIndent(level) == <<NEWLINE>> \o [k \in 1..(JSON_INDENT * level) |-> " "]

(* the items of a list or dict, one per line, one level deeper *)
EncodeItems(open, close, parts, level) ==
    IF parts = <<>> THEN <<open, close>>
    ELSE <<open>> \o NewlineIndent(level + 1)
           \o Join(parts, <<",">> \o NewlineIndent(level + 1))
           \o NewlineIndent(level) \o <<close>>

RECURSIVE Encode(_, _)
Encode(x, level) ==
    CASE x.t = "str"  -> EncodeString(x.v)
      [] x.t = "list" ->
            EncodeItems("[", "]",
                        [k \in 1..Len(x.v) |-> Encode(x.v[k], level + 1)],
                        level)
      [] x.t = "dict" ->
            EncodeItems("{", "}",
                        [k \in 1..Len(x.v) |->
                            EncodeString(x.v[k].key) \o <<":", " ">>
                                \o Encode(x.v[k].val, level + 1)],
                        level)

json_dump(cache_data) == Encode(cache_data, 0)

(* ---- json.load: a recursive descent over the text ---- *)

JsonWhitespace == {" ", TAB, NEWLINE}

ParseFail        == [ok |-> FALSE, val |-> EmptyDict, pos |-> 0]
ParseOk(val, at) == [ok |-> TRUE, val |-> val, pos |-> at]

CharAt(text, at) == IF at \in 1..Len(text) THEN text[at] ELSE "EOF"

RECURSIVE SkipWs(_, _)
SkipWs(text, at) ==
    IF CharAt(text, at) \in JsonWhitespace THEN SkipWs(text, at + 1) ELSE at

Unescape(c) ==
    CASE c = QUOTE     -> <<QUOTE>>
      [] c = BACKSLASH -> <<BACKSLASH>>
      [] c = "/"       -> <<"/">>
      [] c = "n"       -> <<NEWLINE>>
      [] c = "t"       -> <<TAB>>
      [] OTHER         -> <<>>

(* the characters of a string up to its closing quote; a control character *)
(* or an unknown escape is an error                                        *)
RECURSIVE ParseChars(_, _, _)
ParseChars(text, at, acc) ==
    LET c == CharAt(text, at) IN
    CASE c = "EOF"            -> ParseFail
      [] c = QUOTE            -> ParseOk(JStr(acc), at + 1)
      [] c \in {NEWLINE, TAB} -> ParseFail
      [] c = BACKSLASH ->
            LET e == CharAt(text, at + 1) IN
            IF e = "EOF" \/ Unescape(e) = <<>> THEN ParseFail
            ELSE ParseChars(text, at + 2, acc \o Unescape(e))
      [] OTHER -> ParseChars(text, at + 1, Append(acc, c))

ParseString(text, at) ==
    IF CharAt(text, at) = QUOTE THEN ParseChars(text, at + 1, <<>>)
    ELSE ParseFail

(* dict assignment: a repeated key keeps its place and takes the new value *)
SetItem(items, key, val) ==
    IF \E k \in 1..Len(items) : items[k].key = key
    THEN [k \in 1..Len(items) |->
             IF items[k].key = key THEN [key |-> key, val |-> val]
             ELSE items[k]]
    ELSE Append(items, [key |-> key, val |-> val])

RECURSIVE ParseValue(_, _)
RECURSIVE ParseArrayItems(_, _, _)
RECURSIVE ParseObjectItems(_, _, _)

ParseArrayItems(text, at, acc) ==
    LET item == ParseValue(text, at) IN
    IF ~item.ok THEN ParseFail
    ELSE LET after == SkipWs(text, item.pos)
             items == Append(acc, item.val)
         IN  CASE CharAt(text, after) = "," ->
                    ParseArrayItems(text, SkipWs(text, after + 1), items)
               [] CharAt(text, after) = "]" ->
                    ParseOk(JList(items), after + 1)
               [] OTHER -> ParseFail

ParseObjectItems(text, at, acc) ==
    LET key == ParseString(text, at) IN
    IF ~key.ok THEN ParseFail
    ELSE LET colon == SkipWs(text, key.pos) IN
         IF CharAt(text, colon) # ":" THEN ParseFail
         ELSE LET item == ParseValue(text, SkipWs(text, colon + 1)) IN
              IF ~item.ok THEN ParseFail
              ELSE LET after == SkipWs(text, item.pos)
                       items == SetItem(acc, key.val.v, item.val)
                   IN  CASE CharAt(text, after) = "," ->
                              ParseObjectItems(text, SkipWs(text, after + 1),
                                               items)
                         [] CharAt(text, after) = "}" ->
                              ParseOk(JDict(items), after + 1)
                         [] OTHER -> ParseFail

ParseValue(text, at) ==
    LET c == CharAt(text, at) IN
    CASE c = QUOTE -> ParseString(text, at)
      [] c = "[" ->
            LET first == SkipWs(text, at + 1) IN
            IF CharAt(text, first) = "]" THEN ParseOk(JList(<<>>), first + 1)
            ELSE ParseArrayItems(text, first, <<>>)
      [] c = "{" ->
            LET first == SkipWs(text, at + 1) IN
            IF CharAt(text, first) = "}" THEN ParseOk(JDict(<<>>), first + 1)
            ELSE ParseObjectItems(text, first, <<>>)
      [] OTHER -> ParseFail

(* json.load: [raised, value]; text after the document is an error *)
json_load(text) ==
    LET doc == ParseValue(text, SkipWs(text, 1)) IN
    IF doc.ok /\ SkipWs(text, doc.pos) = Len(text) + 1
    THEN [raised |-> FALSE, value |-> doc.val]
    ELSE [raised |-> TRUE,  value |-> EmptyDict]

-----------------------------------------------------------------------------
(* Numbers: float(price_str), the sums and quotients of prices, and the    *)
(* formats str(), :.3f and :.2f.  A price is an exact fraction num/den.    *)

RECURSIVE GCD(_, _)
GCD(a, b) == IF b = 0 THEN a ELSE GCD(b, a % b)

Abs(n) == IF n < 0 THEN -n ELSE n

Rat(n, d) == LET g == GCD(Abs(n), d) IN [num |-> n \div g, den |-> d \div g]

Zero == Rat(0, 1)

RatAdd(a, b) == Rat(a.num * b.den + b.num * a.den, a.den * b.den)
RatDiv(a, k) == Rat(a.num, a.den * k)
RatEq(a, b)  == a.num * b.den = b.num * a.den

RECURSIVE Pow10(_)
Pow10(k) == IF k = 0 THEN 1 ELSE 10 * Pow10(k - 1)

Remove(s, ch) == SelectSeq(s, LAMBDA c : c # ch)

(* float(s): [ok, value]; an optional sign, then digits with at most one   *)
(* point and at least one digit; anything else is a ValueError             *)
float(s) ==
    LET body   == Strip(s)
        signed == body # <<>> /\ body[1] \in {"+", "-"}
        digits == IF signed THEN Tail(body) ELSE body
        points == {k \in 1..Len(digits) : digits[k] = "."}
        whole  == Remove(digits, ".")
        places == IF points = {} THEN 0
                  ELSE Len(digits) - (CHOOSE k \in points : TRUE)
        value  == Rat(NumVal(whole), Pow10(places))
    IN  IF whole # <<>> /\ AllDigits(whole) /\ Cardinality(points) <= 1
        THEN [ok |-> TRUE,
              value |-> IF signed /\ body[1] = "-"
                        THEN Rat(-value.num, value.den) ELSE value]
        ELSE [ok |-> FALSE, value |-> Zero]

DigitChar(d) ==
    CASE d = 0 -> "0" [] d = 1 -> "1" [] d = 2 -> "2" [] d = 3 -> "3"
      [] d = 4 -> "4" [] d = 5 -> "5" [] d = 6 -> "6" [] d = 7 -> "7"
      [] d = 8 -> "8" [] d = 9 -> "9"

RECURSIVE NatStr(_)
NatStr(n) == IF n < 10 THEN <<DigitChar(n)>>
             ELSE Append(NatStr(n \div 10), DigitChar(n % 10))

(* str(n) of an int *)
str(n) == IF n < 0 THEN <<"-">> \o NatStr(-n) ELSE NatStr(n)

RECURSIVE ZeroFill(_, _)
ZeroFill(s, width) == IF Len(s) >= width THEN s ELSE ZeroFill(<<"0">> \o s, width)

(* format(x, '.<places>f'): x rounded to the nearest, a tie to the even    *)
(* digit, printed with exactly <places> decimals                           *)
FormatFixed(x, places) ==
    LET scaled  == Abs(x.num) * Pow10(places)
        q       == scaled \div x.den
        rem     == scaled % x.den
        rounded == IF 2 * rem > x.den \/ (2 * rem = x.den /\ q % 2 = 1)
                   THEN q + 1 ELSE q
        all     == ZeroFill(NatStr(rounded), places + 1)
        whole   == SubSeq(all, 1, Len(all) - places)
        frac    == SubSeq(all, Len(all) - places + 1, Len(all))
    IN  (IF x.num < 0 THEN <<"-">> ELSE <<>>)
            \o whole \o (IF places > 0 THEN <<".">> \o frac ELSE <<>>)

(* str.ljust(width) *)
ljust(s, width) ==
    IF Len(s) >= width THEN s ELSE s \o [k \in 1..(width - Len(s)) |-> " "]

Max(a, b) == IF a >= b THEN a ELSE b

-----------------------------------------------------------------------------
(* report_generator: calculate_expiring_days, aggregate_report_data        *)

PRICE_COLUMN_INDEX == 3

DEFAULT_STATUS   == <<"A", "c", "t", "i", "v", "e">>
TERMINAL_HEADERS ==
    << <<"S", "e", "r", "i", "a", "l">>,
       <<"C", "l", "i", "e", "n", "t">>,
       <<"D", "I", "D", " ", "Q", "t", "y">>,
       <<"D", "I", "D", " ", "R", "a", "t", "e">>,
       <<"T", "o", "t", "a", "l", " ", "P", "r", "i", "c", "e">>,
       <<"E", "x", "p", "i", "r", "i", "n", "g", " ", "i", "n", " ",
         "D", "a", "y", "s">>,
       <<"S", "t", "a", "t", "u", "s">> >>

(* date(today.year, today.month, target_day) raises ValueError *)
DateValueError(today_, target_day) ==
    ~(1 <= target_day /\ target_day <= DaysInMonth(today_.year, today_.month))

calculate_expiring_days(target_day, today_) ==
    IF DateValueError(today_, target_day) THEN 0
    ELSE target_day - today_.day

(* fault variant: the thousands separators are left in *)
price_str_keep_commas(cell) == Strip(Remove(cell, "$"))

(* row[price_index].replace('$', '').replace(',', '').strip() *)
price_str(cell) == Strip(Remove(Remove(cell, "$"), ","))

(* what one matching row adds to total_price: an IndexError or a           *)
(* ValueError is caught and the row adds nothing                           *)
price_of(row) ==
    IF Len(row) <= PRICE_COLUMN_INDEX THEN Zero
    ELSE LET parsed == float(price_str(row[PRICE_COLUMN_INDEX + 1])) IN
         IF parsed.ok THEN parsed.value ELSE Zero

RECURSIVE total_loop(_, _)
total_loop(rows, total_price) ==
    IF rows = <<>> THEN total_price
    ELSE total_loop(Tail(rows), RatAdd(total_price, price_of(Head(rows))))

(* fault variant: the rate is taken over the rows whose price parsed *)
report_line_rate_of_priced(sheet_name_, matching_rows, expiring_in_days) ==
    LET did_qty     == Len(matching_rows)
        total_price == total_loop(matching_rows, Zero)
        priced      == Len(SelectSeq(matching_rows,
                                     LAMBDA row : price_of(row) # Zero))
        did_rate    == IF priced > 0 THEN RatDiv(total_price, priced)
                       ELSE Zero
    IN  [Client           |-> sheet_name_,
         DID_Qty          |-> did_qty,
         DID_Rate         |-> did_rate,
         Total_Price      |-> total_price,
         Expiring_in_Days |-> expiring_in_days,
         Status           |-> DEFAULT_STATUS]

report_line(sheet_name_, matching_rows, expiring_in_days) ==
    LET did_qty     == Len(matching_rows)
        total_price == total_loop(matching_rows, Zero)
        did_rate    == IF did_qty > 0 THEN RatDiv(total_price, did_qty)
                       ELSE Zero
    IN  [Client           |-> sheet_name_,
         DID_Qty          |-> did_qty,
         DID_Rate         |-> did_rate,
         Total_Price      |-> total_price,
         Expiring_in_Days |-> expiring_in_days,
         Status           |-> DEFAULT_STATUS]

(* fault variant: a sheet without a matching row gets a record too *)
RECURSIVE aggregate_loop_no_skip(_, _, _, _)
aggregate_loop_no_skip(items, target_day, expiring_in_days, final_report_lines) ==
    IF items = <<>> THEN final_report_lines
    ELSE aggregate_loop_no_skip(
             Tail(items), target_day, expiring_in_days,
             Append(final_report_lines,
                    report_line(Head(items).key,
                                filter_rows_by_day(Head(items).val, target_day),
                                expiring_in_days)))

(* for sheet_name, sheet_data in global_cache.items() *)
RECURSIVE aggregate_loop(_, _, _, _)
aggregate_loop(items, target_day, expiring_in_days, final_report_lines) ==
    IF items = <<>> THEN final_report_lines
    ELSE LET matching_rows == filter_rows_by_day(Head(items).val, target_day)
         IN  aggregate_loop(
                 Tail(items), target_day, expiring_in_days,
                 IF matching_rows = <<>> THEN final_report_lines
                 ELSE Append(final_report_lines,
                             report_line(Head(items).key, matching_rows,
                                         expiring_in_days)))

aggregate_report_data(items, target_day, today_) ==
    aggregate_loop(items, target_day,
                   calculate_expiring_days(target_day, today_), <<>>)

-----------------------------------------------------------------------------
(* report_generator: format_and_print_terminal_report                      *)

RULE_WIDTH == 85

(* one print call: what it prints, its text where the text depends on the  *)
(* data, and the number an f-string puts in it                             *)
Line(kind, text, arg) == [kind |-> kind, text |-> text, arg |-> arg]
Rule(ch) == Line("rule", [k \in 1..RULE_WIDTH |-> ch], 0)

processed_row(i, line) ==
    <<str(i),
      line.Client,
      str(line.DID_Qty),
      FormatFixed(line.DID_Rate, 3),
      <<"$">> \o FormatFixed(line.Total_Price, 2),
      str(line.Expiring_in_Days),
      line.Status>>

(* for i, line in enumerate(aggregated_data): the widths after each row *)
RECURSIVE widths_loop(_, _)
widths_loop(printable_rows, widths_) ==
    IF printable_rows = <<>> THEN widths_
    ELSE widths_loop(Tail(printable_rows),
                     [j \in 1..Len(widths_) |->
                         Max(widths_[j], Len(Head(printable_rows)[j]))])

(* fault variant: the padding of two is left out *)
padded_tight(widths_) == widths_

(* widths = [w + 2 for w in widths] *)
padded(widths_) == [j \in 1..Len(widths_) |-> widths_[j] + 2]

(* "".join(cell.ljust(widths[i]) for i, cell in enumerate(cells)) *)
joined(cells, widths_) ==
    Concat([j \in 1..Len(cells) |-> ljust(cells[j], widths_[j])])

no_data_report(target_day) ==
    [lines  |-> <<Line("banner", <<>>, 0), Line("no_data", <<>>, target_day)>>,
     widths |-> <<>>]

table_report(aggregated_data_, target_day) ==
    LET headers        == TERMINAL_HEADERS
        printable_rows == [i \in 1..Len(aggregated_data_) |->
                              processed_row(i, aggregated_data_[i])]
        widths_        == padded(widths_loop(
                              printable_rows,
                              [j \in 1..Len(headers) |-> Len(headers[j])]))
    IN  [lines  |-> <<Rule("="), Line("title", <<>>, target_day), Rule("-"),
                      Line("header", joined(headers, widths_), 0), Rule("-")>>
                    \o [i \in 1..Len(printable_rows) |->
                           Line("row", joined(printable_rows[i], widths_), i)]
                    \o <<Rule("-"),
                         Line("total", <<>>, Len(printable_rows)),
                         Rule("=")>>,
         widths |-> widths_]

(* fault variant: the table is printed for an empty list as well *)
format_and_print_terminal_report_always(aggregated_data_, target_day) ==
    table_report(aggregated_data_, target_day)

(* what the call prints, and its local `widths` when it returns *)
format_and_print_terminal_report(aggregated_data_, target_day) ==
    IF aggregated_data_ = <<>> THEN no_data_report(target_day)
    ELSE table_report(aggregated_data_, target_day)

-----------------------------------------------------------------------------
(* Idle values of the parts a specification does not use                   *)

IdleEnv    == /\ file = MissingFile /\ mtime = 0 /\ now = 0
              /\ today = DateMin
IdleProg   == /\ prog = "none" /\ pc = "idle"
              /\ is_cache_valid = FALSE /\ mod_time = DatetimeMin
              /\ global_cache = EmptySnapshot /\ all_worksheets = <<>>
              /\ idx = 0 /\ report = NewReport /\ target_day_number = 0
              /\ report_cache = EmptySnapshot
IdleHist   == /\ loaded = EmptySnapshot /\ reads = <<>>
              /\ previous = NoPrevious
              /\ fetchLog = <<>> /\ handled = <<>>
              /\ saves = <<>> /\ sleeps = <<>>
IdleFilter == /\ f_sheet_data = <<>> /\ f_target_day = 0
              /\ f_matching_rows = <<>> /\ f_pc = "idle"
IdleStatus == /\ s_exists = FALSE /\ s_mtime = 0 /\ s_now = 0
              /\ s_result = NoResult /\ s_pc = "idle"
IdleOut    == /\ summary = NoSummary /\ aggregated_data = <<>>
              /\ terminal = <<>> /\ widths = <<>>
IdleRg     == rg_items = <<>> /\ rg_target_day = 0 /\ rg_pc = "idle"
IdleRt     == /\ rt_file = [exists |-> FALSE, text |-> <<>>]
              /\ rt_first = EmptyDict /\ rt_second = EmptyDict
              /\ rt_outcome = "none" /\ rt_pc = "idle"
IdleOv     == /\ o_file = [exists |-> FALSE, text |-> <<>>]
              /\ o_pc = <<>> /\ o_global_cache = <<>> /\ o_idx = <<>>
              /\ o_fetched = <<>> /\ o_writes = <<>>

-----------------------------------------------------------------------------
(* SpecFilter: filter_rows_by_day on every drawn sheet and target day      *)

InitFilter ==
    /\ f_sheet_data \in SeqsUpTo(RowPool, MaxRows)
    /\ f_target_day \in TargetDays
    /\ f_matching_rows = <<>>
    /\ f_pc = "call"
    /\ IdleEnv /\ IdleProg /\ IdleHist /\ IdleOut
    /\ IdleStatus /\ IdleRt /\ IdleRg /\ IdleOv

FilterCall ==
    /\ f_pc = "call"
    /\ f_matching_rows' = filter_rows_by_day(f_sheet_data, f_target_day)
    /\ f_pc' = "done"
    /\ UNCHANGED <<f_sheet_data, f_target_day>>
    /\ UNCHANGED <<envVars, progVars, histVars, summary, outVars>>
    /\ UNCHANGED <<statusVars, rtVars, rgVars, ovVars, previous>>

NextFilter == FilterCall

SpecFilter == InitFilter /\ [][NextFilter]_vars

-----------------------------------------------------------------------------
(* SpecStatus: check_cache_status on every drawn file state and clock      *)

InitStatus ==
    /\ s_exists \in BOOLEAN
    /\ s_mtime \in 0..MaxClock
    /\ s_now \in 0..MaxClock
    /\ (~s_exists => s_mtime = 0)
    /\ s_result = NoResult
    /\ s_pc = "call"
    /\ IdleEnv /\ IdleProg /\ IdleHist /\ IdleOut
    /\ IdleFilter /\ IdleRt /\ IdleRg /\ IdleOv

StatusCall ==
    /\ s_pc = "call"
    /\ s_result' = check_cache_status(s_exists, s_mtime, s_now)
    /\ s_pc' = "done"
    /\ UNCHANGED <<s_exists, s_mtime, s_now>>
    /\ UNCHANGED <<envVars, progVars, histVars, summary, outVars>>
    /\ UNCHANGED <<filterVars, rtVars, rgVars, ovVars, previous>>

NextStatus == StatusCall

SpecStatus == InitStatus /\ [][NextStatus]_vars

-----------------------------------------------------------------------------
(* SpecRoundTrip: load_data_from_cache, save_data_to_cache of what was     *)
(* loaded, load_data_from_cache again, on the characters of the cache file *)

(* == of two loaded values; a dict compares by its keys, not their order *)
RECURSIVE PyEq(_, _)
PyEq(a, b) ==
    /\ a.t = b.t
    /\ Len(a.v) = Len(b.v)
    /\ CASE a.t = "str"  -> \A k \in 1..Len(a.v) : a.v[k] = b.v[k]
         [] a.t = "list" -> \A k \in 1..Len(a.v) : PyEq(a.v[k], b.v[k])
         [] a.t = "dict" ->
               \A k \in 1..Len(a.v) : \E j \in 1..Len(b.v) :
                   /\ a.v[k].key = b.v[j].key
                   /\ PyEq(a.v[k].val, b.v[j].val)

NoTextFile     == [exists |-> FALSE, text |-> <<>>]
TextFile(text) == [exists |-> TRUE, text |-> text]

(* load_data_from_cache on the text: any exception gives {} *)
load_text(f) ==
    IF ~f.exists THEN EmptyDict
    ELSE IF json_load(f.text).raised THEN EmptyDict
         ELSE json_load(f.text).value

(* save_data_to_cache on the text: open(filepath, 'w') empties the file,   *)
(* json.dump writes the characters; an exception during the dump leaves    *)
(* the `written` first characters                                          *)
save_text(cache_data, f, outcome, written) ==
    CASE outcome = "ok"          -> TextFile(json_dump(cache_data))
      [] outcome = "open_fails"  -> f
      [] outcome = "write_fails" ->
            TextFile(SubSeq(json_dump(cache_data), 1, written))

(* sheets as get_all_values returns them: lists of lists of str *)
RtSheets == {JList(<<>>),
             JList(<<JList(<<>>)>>),
             JList(<<JList(<<JStr(<<"x">>), JStr(<<"a", QUOTE>>)>>)>>),
             JList(<<JList(<<JStr(<<BACKSLASH, "n">>)>>),
                     JList(<<JStr(<<NEWLINE, TAB>>), JStr(<<>>)>>)>>),
             JList(<<JList(<<JStr(<<"[", ",", " ">>)>>)>>)}
RtTitles == {<<"A">>, <<"B", QUOTE, ":">>}

RtSnapshots ==
    {EmptyDict}
      \cup {JDict(<<[key |-> n, val |-> s]>>) : n \in RtTitles, s \in RtSheets}
      \cup {JDict(<<[key |-> n[1], val |-> s[1]], [key |-> n[2], val |-> s[2]]>>) :
               n \in {m \in RtTitles \X RtTitles : m[1] # m[2]},
               s \in RtSheets \X RtSheets}

(* texts no dump produces: written by hand, repeated key, blank tail *)
CompactText ==
    <<"{", QUOTE, "A", QUOTE, ":", "[", "[", QUOTE, "x", QUOTE, ",",
      QUOTE, BACKSLASH, "/", QUOTE, "]", "]", "}", NEWLINE>>
RepeatedKeyText ==
    <<"{", QUOTE, "A", QUOTE, ":", "[", "[", QUOTE, "x", QUOTE, "]", "]", ",",
      " ", QUOTE, "A", QUOTE, ":", "[", "]", "}">>
(* texts json.load rejects *)
BrokenTexts ==
    {<<>>, <<"{">>, <<"{", "}", "x">>,
     <<"{", QUOTE, "A", QUOTE, ":", "[", "]", ",", "}">>,
     <<"{", QUOTE, "A", QUOTE, ":", "[", QUOTE, NEWLINE, QUOTE, "]", "}">>}

RtTexts ==
    {json_dump(d) : d \in RtSnapshots}
      \cup {CompactText, RepeatedKeyText} \cup BrokenTexts

InitRoundTrip ==
    /\ rt_file \in {NoTextFile} \cup {TextFile(t) : t \in RtTexts}
    /\ rt_first = EmptyDict /\ rt_second = EmptyDict
    /\ rt_outcome = "none"
    /\ rt_pc = "load"
    /\ IdleEnv /\ IdleProg /\ IdleHist /\ IdleOut
    /\ IdleFilter /\ IdleStatus /\ IdleRg /\ IdleOv

RtLoadFirst ==
    /\ rt_pc = "load"
    /\ rt_first' = load_text(rt_file)
    /\ rt_pc' = "save"
    /\ UNCHANGED <<rt_file, rt_second, rt_outcome>>
    /\ UNCHANGED <<envVars, progVars, histVars, summary, outVars>>
    /\ UNCHANGED <<filterVars, statusVars, rgVars, ovVars, previous>>

RtSave ==
    /\ rt_pc = "save"
    /\ \E outcome \in SaveOutcomes :
         \E written \in 0..(Len(json_dump(rt_first)) - 1) :
           /\ (outcome # "write_fails" => written = 0)
           /\ rt_file' = save_text(rt_first, rt_file, outcome, written)
           /\ rt_outcome' = outcome
    /\ rt_pc' = "reload"
    /\ UNCHANGED <<rt_first, rt_second>>
    /\ UNCHANGED <<envVars, progVars, histVars, summary, outVars>>
    /\ UNCHANGED <<filterVars, statusVars, rgVars, ovVars, previous>>

RtLoadAgain ==
    /\ rt_pc = "reload"
    /\ rt_second' = load_text(rt_file)
    /\ rt_pc' = "done"
    /\ UNCHANGED <<rt_file, rt_first, rt_outcome>>
    /\ UNCHANGED <<envVars, progVars, histVars, summary, outVars>>
    /\ UNCHANGED <<filterVars, statusVars, rgVars, ovVars, previous>>

NextRoundTrip == RtLoadFirst \/ RtSave \/ RtLoadAgain

SpecRoundTrip == InitRoundTrip /\ [][NextRoundTrip]_vars

-----------------------------------------------------------------------------
(* SpecReport: aggregate_report_data, then format_and_print_terminal_report *)
(* on every drawn snapshot, target day and date                            *)

Date_0430_24 == <<"0", "4", "/", "3", "0", "/", "2", "0", "2", "4">>
Price_750    == <<"$", "7", ".", "5", "0">>
Row_d        == <<Cell_did, Date_0430_24, Cell_x, Price_750>>
Row_noprice  == <<Cell_did, Date_0318_24>>

RgSheets ==
    {<<>>,
     <<HeaderRow>>,
     <<Row_a>>,
     <<HeaderRow, Row_a>>,
     <<HeaderRow, Row_c>>,
     <<HeaderRow, Row_pad>>,
     <<HeaderRow, Row_a, Row_b, Row_c>>,
     <<HeaderRow, Row_pad, Row_short, Row_a>>,
     <<HeaderRow, Row_a, Row_b, Row_noprice>>,
     <<HeaderRow, Row_d, Row_bad>>}

RgTitles == {<<"A">>, <<"L", "o", "n", "g", "N", "a", "m", "e">>}

Item(key, val) == [key |-> key, val |-> val]

(* the items of a dict: the keys differ *)
RgCaches ==
    {<<>>}
      \cup {<<Item(n, s)>> : n \in RgTitles, s \in RgSheets}
      \cup {<<Item(n[1], s[1]), Item(n[2], s[2])>> :
               n \in {m \in RgTitles \X RgTitles : m[1] # m[2]},
               s \in RgSheets \X RgSheets}

InitReport ==
    /\ rg_items \in RgCaches
    /\ rg_target_day \in TargetDays
    /\ today \in Todays
    /\ rg_pc = "aggregate"
    /\ file = MissingFile /\ mtime = 0 /\ now = 0
    /\ IdleProg /\ IdleHist /\ IdleOut
    /\ IdleFilter /\ IdleStatus /\ IdleRt /\ IdleOv

Aggregate ==
    /\ rg_pc = "aggregate"
    /\ aggregated_data' = aggregate_report_data(rg_items, rg_target_day, today)
    /\ rg_pc' = "print"
    /\ UNCHANGED <<rg_items, rg_target_day, terminal, widths, summary>>
    /\ UNCHANGED <<envVars, progVars, histVars, filterVars, statusVars, rtVars>>
    /\ UNCHANGED <<ovVars, previous>>

PrintReport ==
    /\ rg_pc = "print"
    /\ LET printed == format_and_print_terminal_report(aggregated_data,
                                                       rg_target_day)
       IN  terminal' = printed.lines /\ widths' = printed.widths
    /\ rg_pc' = "done"
    /\ UNCHANGED <<rg_items, rg_target_day, aggregated_data, summary>>
    /\ UNCHANGED <<envVars, progVars, histVars, filterVars, statusVars, rtVars>>
    /\ UNCHANGED <<ovVars, previous>>

NextReport == Aggregate \/ PrintReport

SpecReport == InitReport /\ [][NextReport]_vars

-----------------------------------------------------------------------------
(* Spec: one run of an entry point against a cache file and a spreadsheet  *)

Init ==
    /\ file \in FileStates
    /\ mtime = 0
    /\ now \in {CACHE_LIFETIME_HOURS - 1, CACHE_LIFETIME_HOURS}
    /\ prog \in Programs
    \* data_fetch_script reads the date when its CONFIG is built
    \* (TARGET_DAY_AUTOMATIC = date.today().day); the others read it later
    /\ today \in (IF prog = "data_fetch_script" THEN Todays ELSE {DateMin})
    /\ pc = StartPc(prog)
    /\ is_cache_valid = FALSE /\ mod_time = DatetimeMin
    /\ global_cache = EmptySnapshot /\ all_worksheets = <<>>
    /\ idx = 0 /\ report = NewReport
    /\ target_day_number = (IF prog = "data_fetch_script" THEN today.day ELSE 0)
    /\ report_cache = EmptySnapshot
    /\ IdleHist /\ IdleOut /\ IdleFilter /\ IdleStatus /\ IdleRt /\ IdleRg
    /\ IdleOv

(* one read of the cache file: who reads, and how many get_all_values calls *)
(* the run has made by then                                                *)
Read(who) == [by |-> who, fetched |-> Len(fetchLog)]

(* where control goes when run_data_fetch returns *)
FetchReturnPc == IF prog = "cli_master" THEN "cli_load" ELSE "done"

(* the for loop moves to the next worksheet, or ends *)
LoopPc(inLoop, afterLoop) ==
    IF idx + 1 > Len(all_worksheets) THEN afterLoop ELSE inLoop

InLoop(at) == pc = at /\ idx \in 1..Len(all_worksheets)

sheet_name == all_worksheets[idx]

(* ---------------- cli_master.cli_app ---------------- *)

(* fault variant: run_data_fetch is called whatever the status says *)
CliCheckCacheAlwaysFetch ==
    /\ pc = "cli_check"
    /\ LET st == check_cache_status(FileExists(file), mtime, now) IN
         /\ is_cache_valid' = st.is_valid
         /\ mod_time' = st.mod_time
         /\ pc' = IF st.raised THEN "crashed" ELSE "fetch_load"
    /\ UNCHANGED <<prog, global_cache, all_worksheets, idx, report,
                   target_day_number, report_cache>>
    /\ UNCHANGED <<envVars, histVars, summary, outVars, labVars>>

(* 1. CHECK CACHE STATUS *)
CliCheckCache ==
    /\ pc = "cli_check"
    /\ LET st == check_cache_status(FileExists(file), mtime, now) IN
         /\ is_cache_valid' = st.is_valid
         /\ mod_time' = st.mod_time
         /\ pc' = IF st.raised THEN "crashed"
                  ELSE IF ~st.is_valid THEN "fetch_load" ELSE "cli_load"
    /\ UNCHANGED <<prog, global_cache, all_worksheets, idx, report,
                   target_day_number, report_cache>>
    /\ UNCHANGED <<envVars, histVars, summary, outVars, labVars>>

(* 2. LOAD CACHE: the file is read again; an empty result ends cli_app *)
CliLoad ==
    /\ pc = "cli_load"
    /\ LET r == load_data_from_cache(file) IN
         /\ report_cache' = r.value
         /\ pc' = IF r.exit THEN "load_exit"
                  ELSE IF r.value = EmptySnapshot THEN "fatal_no_data"
                  ELSE "reporting"
    /\ reads' = Append(reads, Read("cli_app"))
    /\ UNCHANGED <<prog, is_cache_valid, mod_time, global_cache, all_worksheets,
                   idx, report, target_day_number>>
    /\ UNCHANGED <<loaded, fetchLog, handled, saves, sleeps>>
    /\ UNCHANGED <<envVars, summary, outVars, labVars>>

(* ---------------- data_fetcher.run_data_fetch ---------------- *)

FetchLoad ==
    /\ pc = "fetch_load"
    /\ LET r == load_data_from_cache(file) IN
         /\ global_cache' = r.value
         /\ loaded' = r.value
         /\ reads' = Append(reads, Read("run_data_fetch"))
         /\ pc' = IF r.exit THEN "load_exit" ELSE "fetch_auth"
    /\ UNCHANGED <<prog, is_cache_valid, mod_time, all_worksheets, idx, report,
                   target_day_number, report_cache>>
    /\ UNCHANGED <<fetchLog, handled, saves, sleeps>>
    /\ UNCHANGED <<envVars, summary, outVars, labVars>>

(* authenticate_and_get_worksheets caught an exception and returned [] *)
FetchAuthFail ==
    /\ pc = "fetch_auth"
    /\ all_worksheets' = <<>>
    /\ pc' = FetchReturnPc
    /\ UNCHANGED <<prog, is_cache_valid, mod_time, global_cache, idx, report,
                   target_day_number, report_cache>>
    /\ UNCHANGED <<envVars, histVars, summary, outVars, labVars>>

FetchAuthOk ==
    /\ pc = "fetch_auth"
    /\ \E ws \in WorksheetLists : all_worksheets' = ws
    /\ idx' = 1
    /\ report' = [report EXCEPT !.sheets_fetched = 0]
    /\ pc' = "fetch_loop"
    /\ UNCHANGED <<prog, is_cache_valid, mod_time, global_cache,
                   target_day_number, report_cache>>
    /\ UNCHANGED <<envVars, histVars, summary, outVars, labVars>>

(* fault variant: every sheet is fetched, cached or not *)
FetcherCacheMissAlways(name, cache) == TRUE

(* if sheet_name not in global_cache *)
FetcherCacheMiss(name, cache) == name \notin DOMAIN cache

FetchCacheHit ==
    /\ InLoop("fetch_loop")
    /\ ~FetcherCacheMiss(sheet_name, global_cache)
    /\ handled' = Append(handled, sheet_name)
    /\ idx' = idx + 1
    /\ pc' = LoopPc("fetch_loop", "fetch_save")
    /\ UNCHANGED <<prog, is_cache_valid, mod_time, global_cache, all_worksheets,
                   report, target_day_number, report_cache>>
    /\ UNCHANGED <<loaded, reads, fetchLog, saves, sleeps>>
    /\ UNCHANGED <<envVars, summary, outVars, labVars>>

(* get_all_values returned: the rows are stored whatever they are *)
FetchLive ==
    /\ InLoop("fetch_loop")
    /\ FetcherCacheMiss(sheet_name, global_cache)
    /\ \E sheet_data \in SheetChoices :
         global_cache' = Put(global_cache, sheet_name, sheet_data)
    /\ report' = [report EXCEPT !.sheets_fetched = @ + 1]
    /\ sleeps' = Append(sleeps, sheet_name)
    /\ fetchLog' = Append(fetchLog, [name |-> sheet_name, ok |-> TRUE])
    /\ handled' = Append(handled, sheet_name)
    /\ idx' = idx + 1
    /\ pc' = LoopPc("fetch_loop", "fetch_save")
    /\ UNCHANGED <<prog, is_cache_valid, mod_time, all_worksheets,
                   target_day_number, report_cache>>
    /\ UNCHANGED <<loaded, reads, saves>>
    /\ UNCHANGED <<envVars, summary, outVars, labVars>>

(* fault variant: the exception leaves the loop and the function *)
FetchFailAbort ==
    /\ InLoop("fetch_loop")
    /\ FetcherCacheMiss(sheet_name, global_cache)
    /\ fetchLog' = Append(fetchLog, [name |-> sheet_name, ok |-> FALSE])
    /\ handled' = Append(handled, sheet_name)
    /\ pc' = FetchReturnPc
    /\ UNCHANGED <<prog, is_cache_valid, mod_time, global_cache, all_worksheets,
                   idx, report, target_day_number, report_cache>>
    /\ UNCHANGED <<loaded, reads, saves, sleeps>>
    /\ UNCHANGED <<envVars, summary, outVars, labVars>>

(* get_all_values raised: except Exception ... continue *)
FetchFail ==
    /\ InLoop("fetch_loop")
    /\ FetcherCacheMiss(sheet_name, global_cache)
    /\ fetchLog' = Append(fetchLog, [name |-> sheet_name, ok |-> FALSE])
    /\ handled' = Append(handled, sheet_name)
    /\ idx' = idx + 1
    /\ pc' = LoopPc("fetch_loop", "fetch_save")
    /\ UNCHANGED <<prog, is_cache_valid, mod_time, global_cache, all_worksheets,
                   report, target_day_number, report_cache>>
    /\ UNCHANGED <<loaded, reads, saves, sleeps>>
    /\ UNCHANGED <<envVars, summary, outVars, labVars>>

(* fault variant: the cache is written only when a sheet was fetched *)
FetchSaveIfFetched ==
    /\ pc = "fetch_save"
    /\ IF report.sheets_fetched > 0
       THEN \E outcome \in SaveOutcomes :
              /\ file' = save_data_to_cache(global_cache, file, outcome)
              /\ mtime' = SaveMtime(mtime, now, outcome)
              /\ saves' = Append(saves, SaveRecord(global_cache, file, outcome))
       ELSE UNCHANGED <<file, mtime, saves>>
    /\ summary' = FetchSummary(report)
    /\ pc' = FetchReturnPc
    /\ UNCHANGED <<now, today>>
    /\ UNCHANGED <<prog, is_cache_valid, mod_time, global_cache, all_worksheets,
                   idx, report, target_day_number, report_cache>>
    /\ UNCHANGED <<loaded, reads, fetchLog, handled, sleeps>>
    /\ UNCHANGED <<outVars, labVars>>

FetchSave ==
    /\ pc = "fetch_save"
    /\ \E outcome \in SaveOutcomes :
         /\ file' = save_data_to_cache(global_cache, file, outcome)
         /\ mtime' = SaveMtime(mtime, now, outcome)
         /\ saves' = Append(saves, SaveRecord(global_cache, file, outcome))
    /\ summary' = FetchSummary(report)
    /\ pc' = FetchReturnPc
    /\ UNCHANGED <<now, today>>
    /\ UNCHANGED <<prog, is_cache_valid, mod_time, global_cache, all_worksheets,
                   idx, report, target_day_number, report_cache>>
    /\ UNCHANGED <<loaded, reads, fetchLog, handled, sleeps>>
    /\ UNCHANGED <<outVars, labVars>>

(* ------- data_fetch_script.find_rows_with_target_day_interactive ------- *)

(* 1. the day is today's day: get_output_directory finds it valid *)
ScriptStart ==
    /\ pc = "script_start"
    /\ pc' = "script_load"
    /\ UNCHANGED <<prog, is_cache_valid, mod_time, global_cache, all_worksheets,
                   idx, report, target_day_number, report_cache>>
    /\ UNCHANGED <<envVars, histVars, summary, outVars, labVars>>

(* 2. Load Cache (USE_CACHE is True) *)
ScriptLoad ==
    /\ pc = "script_load"
    /\ LET r == script_load_data_from_cache(file) IN
         /\ global_cache' = r.value
         /\ loaded' = r.value
         /\ reads' = Append(reads, Read("find_rows_with_target_day_interactive"))
         /\ pc' = IF r.exit THEN "load_exit" ELSE "script_auth"
    /\ UNCHANGED <<prog, is_cache_valid, mod_time, all_worksheets, idx, report,
                   target_day_number, report_cache>>
    /\ UNCHANGED <<fetchLog, handled, saves, sleeps>>
    /\ UNCHANGED <<envVars, summary, outVars, labVars>>

(* 3. authenticate_and_get_worksheets: sys.exit(1) on any exception *)
ScriptAuthFail ==
    /\ pc = "script_auth"
    /\ pc' = "exit1"
    /\ UNCHANGED <<prog, is_cache_valid, mod_time, global_cache, all_worksheets,
                   idx, report, target_day_number, report_cache>>
    /\ UNCHANGED <<envVars, histVars, summary, outVars, labVars>>

ScriptAuthOk ==
    /\ pc = "script_auth"
    /\ \E ws \in WorksheetLists : all_worksheets' = ws
    /\ report' = [report EXCEPT !.total_sheets = Len(all_worksheets')]
    /\ idx' = 1
    /\ pc' = "script_loop"
    /\ UNCHANGED <<prog, is_cache_valid, mod_time, global_cache,
                   target_day_number, report_cache>>
    /\ UNCHANGED <<envVars, histVars, summary, outVars, labVars>>

(* if config['USE_CACHE'] and sheet_name in global_cache *)
ScriptCacheHit(name, cache) == name \in DOMAIN cache

(* DATA PROCESSING: empty or header-only sheets are skipped, the others filtered *)
Processed(rep, sheet_data) ==
    IF sheet_data = <<>> \/ Len(sheet_data) <= 1
    THEN [rep EXCEPT !.sheets_skipped_empty = @ + 1]
    ELSE [rep EXCEPT !.total_matches =
              @ + Len(filter_rows_by_day(sheet_data, target_day_number))]

ScriptFromCache ==
    /\ InLoop("script_loop")
    /\ ScriptCacheHit(sheet_name, global_cache)
    /\ report' = Processed([report EXCEPT !.sheets_loaded_from_cache = @ + 1],
                           global_cache[sheet_name])
    /\ handled' = Append(handled, sheet_name)
    /\ idx' = idx + 1
    /\ pc' = LoopPc("script_loop", "script_save")
    /\ UNCHANGED <<prog, is_cache_valid, mod_time, global_cache, all_worksheets,
                   target_day_number, report_cache>>
    /\ UNCHANGED <<loaded, reads, fetchLog, saves, sleeps>>
    /\ UNCHANGED <<envVars, summary, outVars, labVars>>

(* if sheet_data and config['USE_CACHE']: global_cache[sheet_name] = sheet_data *)
ScriptStore(cache, name, sheet_data) ==
    IF sheet_data # <<>> THEN Put(cache, name, sheet_data) ELSE cache

ScriptLive ==
    /\ InLoop("script_loop")
    /\ ~ScriptCacheHit(sheet_name, global_cache)
    /\ \E sheet_data \in SheetChoices :
         /\ global_cache' = ScriptStore(global_cache, sheet_name, sheet_data)
         /\ report' = Processed([report EXCEPT !.sheets_processed = @ + 1],
                                sheet_data)
    /\ sleeps' = Append(sleeps, sheet_name)
    /\ fetchLog' = Append(fetchLog, [name |-> sheet_name, ok |-> TRUE])
    /\ handled' = Append(handled, sheet_name)
    /\ idx' = idx + 1
    /\ pc' = LoopPc("script_loop", "script_save")
    /\ UNCHANGED <<prog, is_cache_valid, mod_time, all_worksheets,
                   target_day_number, report_cache>>
    /\ UNCHANGED <<loaded, reads, saves>>
    /\ UNCHANGED <<envVars, summary, outVars, labVars>>

(* fault variant: the failed sheet is skipped without being counted *)
ScriptFailUncounted ==
    /\ InLoop("script_loop")
    /\ ~ScriptCacheHit(sheet_name, global_cache)
    /\ fetchLog' = Append(fetchLog, [name |-> sheet_name, ok |-> FALSE])
    /\ handled' = Append(handled, sheet_name)
    /\ idx' = idx + 1
    /\ pc' = LoopPc("script_loop", "script_save")
    /\ UNCHANGED <<prog, is_cache_valid, mod_time, global_cache, all_worksheets,
                   report, target_day_number, report_cache>>
    /\ UNCHANGED <<loaded, reads, saves, sleeps>>
    /\ UNCHANGED <<envVars, summary, outVars, labVars>>

(* except gspread.exceptions.APIError / except Exception: ... continue *)
ScriptFail ==
    /\ InLoop("script_loop")
    /\ ~ScriptCacheHit(sheet_name, global_cache)
    /\ report' = [report EXCEPT !.sheets_skipped_error = @ + 1]
    /\ fetchLog' = Append(fetchLog, [name |-> sheet_name, ok |-> FALSE])
    /\ handled' = Append(handled, sheet_name)
    /\ idx' = idx + 1
    /\ pc' = LoopPc("script_loop", "script_save")
    /\ UNCHANGED <<prog, is_cache_valid, mod_time, global_cache, all_worksheets,
                   target_day_number, report_cache>>
    /\ UNCHANGED <<loaded, reads, saves, sleeps>>
    /\ UNCHANGED <<envVars, summary, outVars, labVars>>

(* 5. Save Cache *)
ScriptSave ==
    /\ pc = "script_save"
    /\ \E outcome \in SaveOutcomes :
         /\ file' = save_data_to_cache(global_cache, file, outcome)
         /\ mtime' = SaveMtime(mtime, now, outcome)
         /\ saves' = Append(saves, SaveRecord(global_cache, file, outcome))
    /\ pc' = "script_summary"
    /\ UNCHANGED <<now, today>>
    /\ UNCHANGED <<prog, is_cache_valid, mod_time, global_cache, all_worksheets,
                   idx, report, target_day_number, report_cache>>
    /\ UNCHANGED <<loaded, reads, fetchLog, handled, sleeps>>
    /\ UNCHANGED <<summary, outVars, labVars>>

(* 6. Final Summary *)
ScriptSummary ==
    /\ pc = "script_summary"
    /\ summary' = ScriptSummaryOf(report, target_day_number)
    /\ pc' = "done"
    /\ UNCHANGED <<prog, is_cache_valid, mod_time, global_cache, all_worksheets,
                   idx, report, target_day_number, report_cache>>
    /\ UNCHANGED <<envVars, histVars, outVars, labVars>>

(* ------- report_cli.generate_terminal_report_from_cache: 2. Load Data ------- *)

ReportCliLoad ==
    /\ pc = "rcli_load"
    /\ LET r == report_cli_load_data_from_cache(file) IN
         /\ report_cache' = r.value
         /\ pc' = IF r.exit THEN "load_exit" ELSE "reporting"
    /\ reads' = Append(reads, Read("generate_terminal_report_from_cache"))
    /\ UNCHANGED <<prog, is_cache_valid, mod_time, global_cache, all_worksheets,
                   idx, report, target_day_number>>
    /\ UNCHANGED <<loaded, fetchLog, handled, saves, sleeps>>
    /\ UNCHANGED <<envVars, summary, outVars, labVars>>

(* ------- get_target_day_input and the report of the answered day ------- *)

(* what the user types *)
Answers == {<<"q">>, <<"Q">>, <<"a", "b", "c">>, <<"0">>, <<"3", "2">>,
            <<" ", "1", "8">>, <<"3", "0">>}

(* int(s): [ok, value]; blanks around the digits and a sign are accepted *)
int(s) ==
    LET body   == Strip(s)
        signed == body # <<>> /\ body[1] \in {"+", "-"}
        digits == IF signed THEN Tail(body) ELSE body
    IN  IF digits # <<>> /\ AllDigits(digits)
        THEN [ok |-> TRUE,
              value |-> IF signed /\ body[1] = "-" THEN -NumVal(digits)
                        ELSE NumVal(digits)]
        ELSE [ok |-> FALSE, value |-> 0]

(* fault variant: every whole number is taken as the day *)
get_target_day_input_any_int(answer, has_quit) ==
    IF has_quit /\ answer \in {<<"q">>, <<"Q">>}
    THEN [kind |-> "quit", day |-> 0]
    ELSE IF ~int(answer).ok THEN [kind |-> "again", day |-> 0]
    ELSE [kind |-> "day", day |-> int(answer).value]

(* one pass of the while loop of get_target_day_input: the answer ends the *)
(* report ("quit", report_generator only), is refused with an Input Error  *)
(* ("again"), or is returned as the day                                    *)
get_target_day_input(answer, has_quit) ==
    IF has_quit /\ answer \in {<<"q">>, <<"Q">>}
    THEN [kind |-> "quit", day |-> 0]
    ELSE IF ~int(answer).ok THEN [kind |-> "again", day |-> 0]
    ELSE IF ~(1 <= int(answer).value /\ int(answer).value <= 31)
         THEN [kind |-> "again", day |-> 0]
    ELSE [kind |-> "day", day |-> int(answer).value]

(* the orders in which a dict can hold its keys *)
Orders(cache) ==
    {order \in [1..Cardinality(DOMAIN cache) -> DOMAIN cache] :
        \A a, b \in DOMAIN order : a # b => order[a] # order[b]}

Items(cache, order) ==
    [k \in 1..Len(order) |-> Item(<<order[k]>>, cache[order[k]])]

(* date.today(): the date does not change during the run *)
DateRead == IF today = DateMin THEN Todays ELSE {today}

(* the order in which one dict object holds its keys: it is the same at *)
(* every iteration over that object                                     *)
DictOrder(cache) == CHOOSE order \in Orders(cache) : TRUE

(* aggregate_report_data, then format_and_print_terminal_report *)
ReportedIn(cache, target_day, orders) ==
    \E order \in orders, date \in DateRead :
        LET data    == aggregate_report_data(Items(cache, order), target_day,
                                             date)
            printed == format_and_print_terminal_report(data, target_day)
        IN  /\ today' = date
            /\ aggregated_data' = data
            /\ terminal' = printed.lines
            /\ widths' = printed.widths

Reported(cache, target_day) == ReportedIn(cache, target_day, Orders(cache))

(* ------- report_cli.generate_terminal_report_from_cache ------- *)

(* 1. Setup and Input: the answer is refused and the prompt comes again *)
RcliRejected ==
    /\ pc = "rcli_input"
    /\ \E answer \in Answers :
         get_target_day_input(answer, FALSE).kind = "again"
    /\ terminal' = <<Line("input_error", <<>>, 0)>>
    /\ UNCHANGED <<aggregated_data, widths, summary>>
    /\ UNCHANGED <<envVars, progVars, histVars, labVars>>

(* 1. Setup and Input: a day is answered *)
RcliInput ==
    /\ pc = "rcli_input"
    /\ \E answer \in Answers :
         LET got == get_target_day_input(answer, FALSE) IN
         /\ got.kind = "day"
         /\ target_day_number' = got.day
    /\ pc' = "rcli_load"
    /\ UNCHANGED <<prog, is_cache_valid, mod_time, global_cache,
                   all_worksheets, idx, report, report_cache>>
    /\ UNCHANGED <<envVars, histVars, summary, outVars, labVars>>

(* 3. Aggregate Metrics, 4. Format and Print the Final Report *)
RcliReport ==
    /\ prog = "report_cli" /\ pc = "reporting"
    /\ Reported(report_cache, target_day_number)
    /\ pc' = "done"
    /\ UNCHANGED <<prog, is_cache_valid, mod_time, global_cache,
                   all_worksheets, idx, report, target_day_number, report_cache>>
    /\ UNCHANGED <<file, mtime, now>>
    /\ UNCHANGED <<histVars, summary, labVars>>

Next ==
    \/ CliCheckCache \/ CliLoad
    \/ FetchLoad \/ FetchAuthFail \/ FetchAuthOk
    \/ FetchCacheHit \/ FetchLive \/ FetchFail \/ FetchSave
    \/ ScriptStart \/ ScriptLoad \/ ScriptAuthFail \/ ScriptAuthOk
    \/ ScriptFromCache \/ ScriptLive \/ ScriptFail \/ ScriptSave \/ ScriptSummary
    \/ ReportCliLoad
    \/ RcliRejected \/ RcliInput \/ RcliReport

Spec == Init /\ [][Next]_vars

-----------------------------------------------------------------------------
(* Properties                                                              *)

(* the run has left the sheet loop and the save that follows it *)
RunOver ==
    /\ all_worksheets # <<>>
    /\ pc \in {"done", "cli_load", "reporting", "fatal_no_data", "script_summary"}

FetchedNames == {fetchLog[k].name : k \in 1..Len(fetchLog)}
SomeFetchFailed == \E k \in 1..Len(fetchLog) : ~fetchLog[k].ok
SomeFetchOk == \E k \in 1..Len(fetchLog) : fetchLog[k].ok

(* the row's date cell, stripped, parses and carries the target day *)
RowMatchesDay(row, day) ==
    /\ Len(row) > DATE_COLUMN_INDEX
    /\ LET d == strptime(Strip(row[DATE_COLUMN_INDEX + 1])) IN d.ok /\ d.day = day

RowMonthYear(row) ==
    LET d == strptime(Strip(row[DATE_COLUMN_INDEX + 1])) IN <<d.month, d.year>>

(* C1: filter_rows_by_day returns exactly the rows after the first row whose
   date cell (stripped of surrounding whitespace) parses with the date format
   and whose day-of-month equals the target day, whatever their month and year,
   in their original relative order and with duplicate rows all kept. *)
C1_FilterExact ==
    f_pc = "done" =>
        LET Keep(row) == RowMatchesDay(row, f_target_day) IN
        f_matching_rows = SelectSeq(PySliceFrom1(f_sheet_data), Keep)

(* a result holding the same row twice and a row of another month and year *)
C1_Witness ==
    /\ f_pc = "done"
    /\ Len(f_matching_rows) = 3
    /\ f_matching_rows[1] = f_matching_rows[3]
    /\ RowMonthYear(f_matching_rows[2])[1] # RowMonthYear(f_matching_rows[1])[1]
    /\ RowMonthYear(f_matching_rows[2])[2] # RowMonthYear(f_matching_rows[1])[2]

(* C2: in a refresh run a sheet whose name is a key of the loaded snapshot is
   never fetched from the spreadsheet, and the rows stored under that name stay
   what they were when the snapshot was loaded, in memory and in what a
   successful save writes. *)
C2_CachedSheetUntouched ==
    \A n \in DOMAIN loaded :
        /\ n \notin FetchedNames
        /\ n \in DOMAIN global_cache
        /\ global_cache[n] = loaded[n]
        /\ \A k \in 1..Len(saves) :
               saves[k].result = "ok" => file.data[n] = loaded[n]

(* a finished run that met a cached sheet and fetched another one *)
C2_Witness ==
    /\ RunOver
    /\ \E n \in DOMAIN loaded : \E k \in 1..Len(handled) : handled[k] = n
    /\ SomeFetchOk
    /\ Len(saves) = 1 /\ saves[1].result = "ok"

(* C3: when the live fetch of one sheet fails the run does not stop: the loop
   goes on to every later sheet of the list (cache hit or fetch attempt) and
   the snapshot is handed to save_data_to_cache at the end. *)
C3_FailureDoesNotStop ==
    /\ pc \in {"fetch_loop", "script_loop"} =>
           handled = SubSeq(all_worksheets, 1, idx - 1)
    /\ (SomeFetchFailed /\ pc \notin {"fetch_loop", "script_loop",
                                       "fetch_save", "script_save"}) =>
           /\ handled = all_worksheets
           /\ Len(saves) = 1
           /\ saves[1].snap = global_cache

(* the first sheet failed, a later sheet was fetched, the snapshot was saved *)
C3_Witness ==
    /\ RunOver
    /\ Len(fetchLog) >= 2
    /\ ~fetchLog[1].ok
    /\ fetchLog[2].ok
    /\ Len(saves) = 1

(* C4: a refresh run inserts a fetched sheet into the snapshot only when the
   fetch returned non-empty rows: no sheet name absent from the loaded snapshot
   is mapped to an empty row sequence. *)
C4_NoEmptySheetInserted ==
    \A n \in (DOMAIN global_cache) \ (DOMAIN loaded) : global_cache[n] # <<>>

(* C5: after the sheet loop the snapshot is handed to save_data_to_cache
   exactly once, also when no sheet was fetched; when nothing was fetched the
   snapshot written is the one that was read. *)
C5_PersistedAfterLoop ==
    RunOver =>
        /\ Len(saves) = 1
        /\ saves[1].snap = global_cache
        /\ ~SomeFetchOk =>
               /\ saves[1].snap = loaded
               /\ saves[1].result = "ok" => file = JsonFile(loaded)

(* a finished run in which every sheet was a cache hit and the save was made *)
C5_Witness ==
    /\ RunOver
    /\ fetchLog = <<>>
    /\ loaded # EmptySnapshot
    /\ Len(saves) = 1 /\ saves[1].result = "ok"
    /\ file = JsonFile(loaded)

(* C6: when the cache write at the end of the fetch run fails, cli_app goes on
   to the report, and the report is computed from the rows of the in-memory
   snapshot of that run. *)
C6_ReportFromMemory ==
    (/\ prog = "cli_master"
     /\ pc \in {"reporting", "fatal_no_data"}
     /\ saves # <<>>
     /\ saves[1].result # "ok"
     /\ global_cache # EmptySnapshot) =>
        /\ pc = "reporting"
        /\ report_cache = global_cache

(* C7: after a save_data_to_cache attempt the cache file holds either the
   complete previous content or the complete new snapshot, also when the write
   fails. *)
C7_WriteAllAtomic ==
    \A k \in 1..Len(saves) :
        \/ saves[k].after = saves[k].before
        \/ saves[k].after = JsonFile(saves[k].snap)

C9_FreshIffYounger ==
    (s_pc = "done" /\ s_exists) =>
        /\ s_result.is_valid <=> (s_now - s_mtime < CACHE_LIFETIME_HOURS)
        /\ (s_now - s_mtime = CACHE_LIFETIME_HOURS) => ~s_result.is_valid
        /\ (s_now - s_mtime = CACHE_LIFETIME_HOURS - 1) => s_result.is_valid
        /\ s_result.mod_time = s_mtime

(* a cache whose age is exactly the lifetime was reported stale *)
C9_Witness ==
    /\ s_pc = "done" /\ s_exists
    /\ s_now - s_mtime = CACHE_LIFETIME_HOURS
    /\ ~s_result.is_valid

StartFile == IF saves = <<>> THEN file ELSE saves[1].before

(* C11: when the cache file is absent at the start of a run, cli_app starts
   the fetch run and every sheet of the list is a cache miss: a live fetch is
   attempted for each sheet the loop goes through and none is counted as
   loaded from cache. *)
C11_AbsentCacheAllMiss ==
    StartFile = MissingFile =>
        /\ (prog = "cli_master" /\ pc # "cli_check") =>
               ~is_cache_valid /\ mod_time = DatetimeMin
        /\ loaded = EmptySnapshot
        /\ \A k \in 1..Len(handled) : handled[k] \in FetchedNames
        /\ report.sheets_loaded_from_cache = 0
        /\ RunOver => /\ handled = all_worksheets
                      /\ Len(fetchLog) = Len(all_worksheets)

(* cli_app found no cache file and the fetch run tried both sheets live *)
C11_Witness ==
    /\ StartFile = MissingFile
    /\ prog = "cli_master"
    /\ RunOver
    /\ Len(all_worksheets) = 2
    /\ Len(fetchLog) = 2

-----------------------------------------------------------------------------
(* C12: loading the cache file, saving what was loaded and loading again   *)
(* gives a snapshot equal to the first one: the same sheet names, each     *)
(* with the same rows of the same cells.                                   *)
C12_RoundTrip ==
    rt_pc = "done" => PyEq(rt_first, rt_second)

(* the round trip when the save did not fail while writing *)
RoundTripWhenWritten ==
    (rt_pc = "done" /\ rt_outcome # "write_fails") => rt_first = rt_second

-----------------------------------------------------------------------------
(* Properties of SpecReport                                                *)

Aggregated == rg_pc \in {"print", "done"}

(* the rows of a sheet that count for a day: after the first row, with a   *)
(* date cell that parses and falls on that day                             *)
MatchedRows(sheet_data, day) ==
    SelectSeq(PySliceFrom1(sheet_data), LAMBDA row : RowMatchesDay(row, day))

RecordsOf(name) ==
    {k \in 1..Len(aggregated_data) : aggregated_data[k].Client = name}

(* C13: aggregate_report_data returns exactly one record for each sheet of *)
(* the snapshot with at least one matching row, and no record for a sheet  *)
(* with none (an empty or header-only sheet among them), and no record for *)
(* anything else.                                                          *)
C13_OneRecordPerMatchingSheet ==
    Aggregated =>
        /\ \A i \in 1..Len(rg_items) :
              Cardinality(RecordsOf(rg_items[i].key)) =
                  IF MatchedRows(rg_items[i].val, rg_target_day) # <<>>
                  THEN 1 ELSE 0
        /\ \A k \in 1..Len(aggregated_data) :
              \E i \in 1..Len(rg_items) :
                  rg_items[i].key = aggregated_data[k].Client

(* a header-only sheet beside a sheet with matches: one record *)
C13_Witness ==
    /\ Aggregated
    /\ Len(rg_items) = 2
    /\ rg_items[1].val = <<HeaderRow>>
    /\ Len(aggregated_data) = 1
    /\ aggregated_data[1].Client = rg_items[2].key

(* C14: every record returned by aggregate_report_data has a count of at   *)
(* least 1 and an average rate equal to its total price divided by its     *)
(* count.                                                                  *)
C14_RateIsTotalOverCount ==
    Aggregated =>
        \A k \in 1..Len(aggregated_data) :
            LET r == aggregated_data[k] IN
            /\ r.DID_Qty >= 1
            /\ r.DID_Rate.num * r.DID_Qty * r.Total_Price.den
                   = r.Total_Price.num * r.DID_Rate.den

(* three rows counted, one of them without a price: 1244.50 / 3 *)
C14_Witness ==
    /\ Aggregated
    /\ \E k \in 1..Len(aggregated_data) :
          /\ aggregated_data[k].DID_Qty = 3
          /\ aggregated_data[k].Total_Price = Rat(2489, 2)
          /\ aggregated_data[k].DID_Rate = Rat(2489, 6)

(* what a price cell of the drawn sheets is worth, read by a person *)
KnownPrice(row) ==
    IF Len(row) < 4 THEN Zero
    ELSE CASE row[4] = Price_10   -> Rat(10, 1)
           [] row[4] = Price_1234 -> Rat(123450, 100)
           [] row[4] = Price_5    -> Rat(5, 1)
           [] row[4] = Price_750  -> Rat(750, 100)
           [] OTHER               -> Zero

RECURSIVE KnownTotal(_)
KnownTotal(rows) ==
    IF rows = <<>> THEN Zero
    ELSE RatAdd(KnownPrice(Head(rows)), KnownTotal(Tail(rows)))

(* C15: the count of a record is the number of matched rows of its sheet,  *)
(* whether or not their price cells parse; a matched row whose price cell  *)
(* is missing or unparsable adds 0 to the total and is still counted, and  *)
(* "$1,234.50" adds 1234.50.                                               *)
C15_CountIgnoresPriceParse ==
    Aggregated =>
        \A k \in 1..Len(aggregated_data) :
            \A i \in 1..Len(rg_items) :
                rg_items[i].key = aggregated_data[k].Client =>
                    LET rows == MatchedRows(rg_items[i].val, rg_target_day) IN
                    /\ aggregated_data[k].DID_Qty = Len(rows)
                    /\ RatEq(aggregated_data[k].Total_Price, KnownTotal(rows))

(* a sheet with "$10.00", "$1,234.50" and a row without a price cell, and  *)
(* a sheet whose only matched row has the price "abc"                      *)
C15_Witness ==
    /\ Aggregated
    /\ Len(rg_items) = 2 /\ Len(aggregated_data) = 2
    /\ rg_items[1].val = <<HeaderRow, Row_a, Row_b, Row_noprice>>
    /\ rg_items[2].val = <<HeaderRow, Row_pad>>
    /\ aggregated_data[1].DID_Qty = 3
    /\ aggregated_data[1].Total_Price = Rat(124450, 100)
    /\ aggregated_data[2].DID_Qty = 1
    /\ aggregated_data[2].Total_Price = Zero

(* C16: when the target day is not a day of the current month (30 in       *)
(* February), aggregation returns no record: it raises or reports an input *)
(* error instead of records with a defaulted number of days.               *)
C16_InvalidDayNoRecords ==
    (Aggregated /\ DateValueError(today, rg_target_day)) =>
        aggregated_data = <<>>

Printed == rg_pc = "done"

Kinds == {terminal[k].kind : k \in 1..Len(terminal)}

(* C18: rendering an empty list of records prints the no-data message      *)
(* only (its banner and the sentence naming the day): no line of column    *)
(* headers, no separator and no footer.                                    *)
C18_EmptyListNoTable ==
    (Printed /\ aggregated_data = <<>>) =>
        /\ Kinds = {"banner", "no_data"}
        /\ \A k \in 1..Len(terminal) :
              /\ terminal[k].kind \notin {"header", "rule", "total", "row", "title"}
              /\ terminal[k].kind = "no_data" => terminal[k].arg = rg_target_day

(* a snapshot with sheets, none of which has a row on the day *)
C18_Witness ==
    /\ Printed
    /\ Len(rg_items) = 2
    /\ aggregated_data = <<>>
    /\ Len(terminal) = 2

Sum(ws) == LET S[k \in 0..Len(ws)] == IF k = 0 THEN 0 ELSE S[k - 1] + ws[k]
           IN  S[Len(ws)]

SetMax(S) == CHOOSE x \in S : \A y \in S : y <= x

(* the formatted cell of record i in column j *)
Cell(i, j) == processed_row(i, aggregated_data[i])[j]

(* C19: in the printed table the width of each column is the greater of    *)
(* the length of its header and the greatest length of its formatted cells *)
(* over all records, plus 2; every formatted cell is shorter than its      *)
(* column, and every header and row line is as long as the columns         *)
(* together.                                                               *)
C19_ColumnWidths ==
    (Printed /\ aggregated_data # <<>>) =>
        /\ Len(widths) = Len(TERMINAL_HEADERS)
        /\ \A j \in 1..Len(TERMINAL_HEADERS) :
              /\ widths[j] =
                     SetMax({Len(TERMINAL_HEADERS[j])}
                              \cup {Len(Cell(i, j)) :
                                      i \in 1..Len(aggregated_data)}) + 2
              /\ \A i \in 1..Len(aggregated_data) : Len(Cell(i, j)) < widths[j]
        /\ \A k \in 1..Len(terminal) :
              terminal[k].kind \in {"header", "row"} =>
                  Len(terminal[k].text) = Sum(widths)

(* a client name longer than the header "Client" beside a shorter one,     *)
(* and columns whose header is the longest                                 *)
C19_Witness ==
    /\ Printed
    /\ Len(aggregated_data) = 2
    /\ Len(aggregated_data[1].Client) = 8
    /\ widths[2] = 10
    /\ widths[1] = 8

-----------------------------------------------------------------------------
(* SpecReportLoop: cli_app has found the cache fresh and loaded it, and    *)
(* calls run_report_generator: the while loop of the report requests       *)

InitReportLoop ==
    /\ prog = "cli_master" /\ pc = "reporting"
    /\ report_cache \in Snapshots \ {EmptySnapshot}
    /\ file = JsonFile(report_cache)
    /\ mtime = 0 /\ now = CACHE_LIFETIME_HOURS - 1
    /\ today = DateMin
    /\ is_cache_valid = TRUE /\ mod_time = 0
    /\ global_cache = EmptySnapshot /\ all_worksheets = <<>>
    /\ idx = 0 /\ report = NewReport /\ target_day_number = 0
    /\ loaded = EmptySnapshot
    /\ fetchLog = <<>> /\ handled = <<>> /\ saves = <<>> /\ sleeps = <<>>
    /\ reads = <<Read("cli_app")>>
    /\ previous = NoPrevious
    /\ IdleOut /\ IdleFilter /\ IdleStatus /\ IdleRt /\ IdleRg /\ IdleOv

(* the answer is refused: Input Error, and the prompt comes again *)
ReportRejected ==
    /\ prog = "cli_master" /\ pc = "reporting"
    /\ \E answer \in Answers :
         get_target_day_input(answer, TRUE).kind = "again"
    /\ terminal' = <<Line("input_error", <<>>, 0)>>
    /\ UNCHANGED <<aggregated_data, widths, summary>>
    /\ UNCHANGED <<envVars, progVars, histVars, labVars>>

(* run_report_generator: 'q' ends the loop *)
ReportQuit ==
    /\ prog = "cli_master" /\ pc = "reporting"
    /\ \E answer \in Answers :
         get_target_day_input(answer, TRUE).kind = "quit"
    /\ pc' = "done"
    /\ UNCHANGED <<prog, is_cache_valid, mod_time, global_cache, all_worksheets,
                   idx, report, target_day_number, report_cache>>
    /\ UNCHANGED <<envVars, histVars, summary, outVars, labVars>>

(* run_report_generator: a day is answered, its report is aggregated and   *)
(* printed, and the loop asks again; every request iterates the same dict  *)
ReportDay ==
    /\ prog = "cli_master" /\ pc = "reporting"
    /\ \E answer \in Answers :
         LET got == get_target_day_input(answer, TRUE) IN
         /\ got.kind = "day"
         /\ target_day_number' = got.day
         /\ ReportedIn(report_cache, got.day, {DictOrder(report_cache)})
    /\ UNCHANGED <<prog, pc, is_cache_valid, mod_time, global_cache,
                   all_worksheets, idx, report, report_cache>>
    /\ UNCHANGED <<file, mtime, now>>
    /\ UNCHANGED <<histVars, summary, labVars>>

NextReportLoop == ReportRejected \/ ReportQuit \/ ReportDay

SpecReportLoop == InitReportLoop /\ [][NextReportLoop]_vars

-----------------------------------------------------------------------------
(* Properties of SpecReportLoop and of the summaries of Spec               *)

ReportKinds == {"banner", "no_data", "rule", "title", "header", "row", "total"}

(* C17: when the answered target day is not a day of the current month,    *)
(* the run reports an input error to the user and is aborted: no sheet is  *)
(* fetched and no aggregation is done for that day, nor a report printed.  *)
C17_InvalidDayAborts ==
    (/\ target_day_number # 0
     /\ today # DateMin
     /\ DateValueError(today, target_day_number)) =>
        /\ pc # "reporting"
        /\ \E k \in 1..Len(terminal) : terminal[k].kind = "validation_error"
        /\ \A k \in 1..Len(terminal) : terminal[k].kind \notin ReportKinds
        /\ fetchLog = <<>>

Failures == Cardinality({k \in 1..Len(fetchLog) : ~fetchLog[k].ok})
Fetches  == Cardinality({k \in 1..Len(fetchLog) : fetchLog[k].ok})
Hits     == Len(handled) - Len(fetchLog)

(* C20: every failed fetch of a sheet adds one to a failure counter, and   *)
(* the final summary of a fetch run gives the number of sheets fetched,    *)
(* the number loaded from the cache and the number failed.                 *)
C20_FailuresCountedAndReported ==
    /\ report.sheets_skipped_error = Failures
    /\ summary.printed =>
          /\ {"fetched", "from_cache", "failed"} \subseteq summary.labels
          /\ summary.fetched = Fetches
          /\ summary.from_cache = Hits
          /\ summary.failed = Failures

-----------------------------------------------------------------------------
(* SpecCli: cli_app from its first line to the end of the report loop      *)

InitCli ==
    /\ prog = "cli_master"
    /\ Init

NextCli ==
    \/ CliCheckCache \/ CliLoad
    \/ FetchLoad \/ FetchAuthFail \/ FetchAuthOk
    \/ FetchCacheHit \/ FetchLive \/ FetchFail \/ FetchSave
    \/ ReportRejected \/ ReportQuit \/ ReportDay

SpecCli == InitCli /\ [][NextCli]_vars

(* python cli_master.py once more: a new process, the clock has moved on *)
CliAppAgain ==
    /\ prog = "cli_master"
    /\ pc \in {"done", "fatal_no_data"}
    /\ now < MaxClock
    /\ \E later \in (now + 1)..MaxClock : now' = later
    /\ today' = DateMin
    /\ pc' = StartPc(prog)
    /\ is_cache_valid' = FALSE /\ mod_time' = DatetimeMin
    /\ global_cache' = EmptySnapshot /\ all_worksheets' = <<>>
    /\ idx' = 0 /\ report' = NewReport
    /\ report_cache' = EmptySnapshot
    /\ loaded' = EmptySnapshot /\ reads' = <<>>
    /\ fetchLog' = <<>> /\ handled' = <<>>
    /\ saves' = <<>> /\ sleeps' = <<>>
    /\ summary' = NoSummary /\ aggregated_data' = <<>>
    /\ terminal' = <<>> /\ widths' = <<>>
    /\ previous' =
           [ran            |-> TRUE,
            is_cache_valid |-> is_cache_valid,
            all_hits       |-> /\ all_worksheets # <<>>
                               /\ handled = all_worksheets
                               /\ fetchLog = <<>>,
            loaded         |-> loaded,
            saved          |-> IF saves = <<>> THEN "none" ELSE saves[1].result,
            now            |-> now]
    /\ UNCHANGED <<file, mtime, prog, target_day_number>>
    /\ UNCHANGED <<filterVars, statusVars, rtVars, rgVars, ovVars>>

(* SpecCliAgain: cli_app run after run against the same cache file, by a   *)
(* user who answers the report prompt with 'q'                             *)
NextCliAgain ==
    \/ CliCheckCache \/ CliLoad
    \/ FetchLoad \/ FetchAuthFail \/ FetchAuthOk
    \/ FetchCacheHit \/ FetchLive \/ FetchFail \/ FetchSave
    \/ ReportQuit
    \/ CliAppAgain

SpecCliAgain == InitCli /\ [][NextCliAgain]_vars

-----------------------------------------------------------------------------
(* Properties of SpecCli and SpecCliAgain                                  *)

(* cli_app's fetch run got [] from authenticate_and_get_worksheets *)
AuthFailed ==
    /\ prog = "cli_master"
    /\ ~is_cache_valid
    /\ all_worksheets = <<>>
    /\ pc \in {"cli_load", "reporting", "fatal_no_data", "done"}

(* cli_app has its answer from check_cache_status *)
Checked == prog = "cli_master" /\ pc \notin {"cli_check", "crashed"}

(* C27: cli_app runs a fetch iff check_cache_status reports the cache not  *)
(* fresh: when the cache is fresh no spreadsheet call is made and the      *)
(* cache file is not written in that run, and the report is computed from  *)
(* the cached rows; when it is not fresh run_data_fetch is entered.        *)
C27_FetchIffNotFresh ==
    Checked =>
        /\ ~is_cache_valid =>
              \/ pc = "fetch_load"
              \/ reads # <<>> /\ reads[1].by = "run_data_fetch"
        /\ is_cache_valid =>
              /\ pc \in {"cli_load", "reporting", "fatal_no_data", "done"}
              /\ \A k \in 1..Len(reads) : reads[k].by = "cli_app"
              /\ fetchLog = <<>> /\ handled = <<>> /\ sleeps = <<>>
              /\ saves = <<>>
              /\ pc \in {"reporting", "done"} =>
                    /\ file.kind = "json"
                    /\ report_cache = file.data
              /\ target_day_number # 0 =>
                    aggregated_data =
                        aggregate_report_data(
                            Items(file.data, DictOrder(file.data)),
                            target_day_number, today)

(* a fresh cache, nothing fetched or written, and a report with a record *)
C27_Witness ==
    /\ Checked /\ is_cache_valid
    /\ pc = "reporting"
    /\ reads = <<[by |-> "cli_app", fetched |-> 0]>>
    /\ saves = <<>>
    /\ Len(aggregated_data) > 0
    /\ Len(terminal) > 2

(* cli_app found the cache stale, and the loaded snapshot has a key for    *)
(* every worksheet of the spreadsheet                                      *)
StaleButComplete ==
    /\ Checked /\ ~is_cache_valid
    /\ all_worksheets # <<>>
    /\ \A k \in 1..Len(all_worksheets) : all_worksheets[k] \in DOMAIN loaded

(* the run before this one was such a run, and its write went through *)
AfterStaleButComplete ==
    /\ previous.ran /\ ~previous.is_cache_valid
    /\ previous.all_hits /\ previous.saved = "ok"

(* C28: when cli_app finds a stale cache that already holds every sheet of *)
(* the spreadsheet, the fetch run fetches no sheet and leaves all rows     *)
(* unchanged, yet it rewrites the cache file (the write succeeding), so    *)
(* the next check_cache_status within the lifetime reports the cache fresh *)
(* although its data was not refreshed.                                    *)
C28_StaleCompleteCacheRefreshed ==
    /\ StaleButComplete =>
          /\ fetchLog = <<>> /\ sleeps = <<>>
          /\ global_cache = loaded
          /\ pc \notin {"fetch_loop", "fetch_save"} =>
                /\ Len(saves) = 1
                /\ saves[1].snap = loaded
                /\ saves[1].result = "ok" =>
                      /\ saves[1].after = JsonFile(loaded)
                      /\ mtime = now
    /\ (/\ AfterStaleButComplete
        /\ Checked
        /\ now - previous.now < CACHE_LIFETIME_HOURS) =>
          /\ is_cache_valid
          /\ mod_time = previous.now
          /\ file = JsonFile(previous.loaded)
          /\ fetchLog = <<>> /\ saves = <<>>

(* the run after: the cache file tells fresh, its rows are the old ones *)
C28_Witness ==
    /\ AfterStaleButComplete
    /\ Checked /\ is_cache_valid
    /\ pc = "done"
    /\ report_cache = previous.loaded
    /\ now > previous.now

(* C21: a fatal error during spreadsheet authentication or connection      *)
(* aborts the entire process before any sheet is processed: after it no    *)
(* sheet is fetched, and no report is aggregated or rendered in that run.  *)
C21_AuthFailureAborts ==
    AuthFailed =>
        /\ fetchLog = <<>> /\ handled = <<>>
        /\ pc # "reporting"
        /\ aggregated_data = <<>>
        /\ \A k \in 1..Len(terminal) : terminal[k].kind \notin ReportKinds

-----------------------------------------------------------------------------
(* Properties of SpecFilter: the first row and the rows left out           *)

(* how many times a row stands in a sequence of rows *)
Count(rows, row) == Cardinality({k \in 1..Len(rows) : rows[k] = row})

(* C22: filter_rows_by_day never returns the first row of its input, also  *)
(* when that row holds a parseable date whose day equals the target day:   *)
(* the result holds a row equal to the first one only as often as such a   *)
(* row stands after it; an empty or header-only input yields an empty      *)
(* result without error.                                                   *)
C22_FirstRowNeverReturned ==
    f_pc = "done" =>
        /\ Len(f_sheet_data) <= 1 => f_matching_rows = <<>>
        /\ f_sheet_data # <<>> =>
              /\ Len(f_matching_rows) <= Len(f_sheet_data) - 1
              /\ Count(f_matching_rows, f_sheet_data[1])
                     <= Count(Tail(f_sheet_data), f_sheet_data[1])

(* the first row falls on the target day and only a later row is returned *)
C22_Witness ==
    /\ f_pc = "done"
    /\ Len(f_sheet_data) >= 2
    /\ RowMatchesDay(f_sheet_data[1], f_target_day)
    /\ Len(f_matching_rows) = 1
    /\ f_matching_rows[1] # f_sheet_data[1]

(* the row is too short to have a date cell, or its date cell does not parse *)
Malformed(row) ==
    \/ Len(row) < DATE_COLUMN_INDEX + 1
    \/ ~strptime(Strip(row[DATE_COLUMN_INDEX + 1])).ok

RemoveAt(rows, k) == SubSeq(rows, 1, k - 1) \o SubSeq(rows, k + 1, Len(rows))

(* C23: in filter_rows_by_day a row with fewer cells than date column      *)
(* index + 1, or whose date cell does not parse, is left out without       *)
(* raising, and the rows after it are still examined: the result is what   *)
(* the rows on the target day give when the malformed row is taken away.   *)
C23_MalformedRowSkipped ==
    f_pc = "done" =>
        \A k \in 2..Len(f_sheet_data) :
            Malformed(f_sheet_data[k]) =>
                /\ \A j \in 1..Len(f_matching_rows) :
                       f_matching_rows[j] # f_sheet_data[k]
                /\ f_matching_rows =
                       SelectSeq(Tail(RemoveAt(f_sheet_data, k)),
                                 LAMBDA row : RowMatchesDay(row, f_target_day))

(* a short row, then a row whose date is no date, then a row on the day *)
C23_Witness ==
    /\ f_pc = "done"
    /\ Len(f_sheet_data) = 4
    /\ Len(f_sheet_data[2]) < DATE_COLUMN_INDEX + 1
    /\ Len(f_sheet_data[3]) > DATE_COLUMN_INDEX
    /\ Malformed(f_sheet_data[3])
    /\ f_matching_rows = <<f_sheet_data[4]>>

-----------------------------------------------------------------------------
(* Properties of Spec: the delay, the reads and the writes of a run        *)

(* C24: the inter-call delay is applied after every live fetch attempt,    *)
(* both when the fetch succeeds and when it fails, before the next sheet   *)
(* is handled; it is not applied after a cache hit.                        *)
C24_DelayAfterEveryAttempt ==
    sleeps = [k \in 1..Len(fetchLog) |-> fetchLog[k].name]

(* C25: in one run the persisted cache is read exactly once, before any    *)
(* sheet is fetched, and written exactly once, after the last sheet of the *)
(* list has been handled; the persisted cache does not change between two  *)
(* sheet fetches of the same run.                                          *)
C25_ReadOnceWrittenOnce ==
    /\ Len(reads) <= 1
    /\ \A k \in 1..Len(reads) : reads[k].fetched = 0
    /\ pc \in {"fetch_loop", "script_loop"} =>
          /\ Len(reads) = 1
          /\ saves = <<>>
    /\ saves # <<>> => handled = all_worksheets
    /\ RunOver =>
          /\ Len(reads) = 1
          /\ Len(saves) = 1

-----------------------------------------------------------------------------
(* SpecOverlap: two processes run run_data_fetch at the same time against  *)
(* one cache file and one spreadsheet.  Every open and every write         *)
(* succeeds.  save_data_to_cache is two steps: open(filepath, 'w') empties *)
(* the file and gives a handle at offset 0; leaving the with block writes  *)
(* the buffered text of json.dump at that offset.                          *)

Runs == {1, 2}

(* spreadsheet.worksheets(): the titles, the same for both processes *)
OvWorksheets == <<<<"A">>, <<"B">>>>

(* what get_all_values returns: no rows, or one row of one cell *)
OvSheetChoices == {JList(<<>>), JList(<<JList(<<JStr(<<"x">>)>>)>>)}

OvFiles ==
    {NoTextFile,
     TextFile(json_dump(JDict(<<[key |-> <<"A">>,
                                 val |-> JList(<<JList(<<JStr(<<"y">>)>>)>>)]>>)))}

(* sheet_name in global_cache *)
HasKey(cache, name) == \E k \in 1..Len(cache.v) : cache.v[k].key = name

(* write(fd, text) at offset 0 of a file that is not emptied first: the    *)
(* characters beyond the text stay                                         *)
Overlay(old, text) == text \o SubSeq(old, Len(text) + 1, Len(old))

OvOthers ==
    UNCHANGED <<envVars, progVars, histVars, summary, outVars,
                filterVars, statusVars, rtVars, rgVars, previous>>

InitOverlap ==
    /\ o_file \in OvFiles
    /\ o_pc = [r \in Runs |-> "load"]
    /\ o_global_cache = [r \in Runs |-> EmptyDict]
    /\ o_idx = [r \in Runs |-> 0]
    /\ o_fetched = [r \in Runs |-> {}]
    /\ o_writes = <<>>
    /\ IdleEnv /\ IdleProg /\ IdleHist /\ IdleOut
    /\ IdleFilter /\ IdleStatus /\ IdleRt /\ IdleRg

(* global_cache = load_data_from_cache(config) *)
OvLoad(r) ==
    /\ o_pc[r] = "load"
    /\ o_global_cache' = [o_global_cache EXCEPT ![r] = load_text(o_file)]
    /\ o_pc' = [o_pc EXCEPT ![r] = "auth"]
    /\ UNCHANGED <<o_file, o_idx, o_fetched, o_writes>>
    /\ OvOthers

(* if not all_worksheets: return *)
OvAuthFail(r) ==
    /\ o_pc[r] = "auth"
    /\ o_pc' = [o_pc EXCEPT ![r] = "done"]
    /\ UNCHANGED <<o_file, o_global_cache, o_idx, o_fetched, o_writes>>
    /\ OvOthers

OvAuthOk(r) ==
    /\ o_pc[r] = "auth"
    /\ o_idx' = [o_idx EXCEPT ![r] = 1]
    /\ o_pc' = [o_pc EXCEPT ![r] = "loop"]
    /\ UNCHANGED <<o_file, o_global_cache, o_fetched, o_writes>>
    /\ OvOthers

OvInLoop(r) == o_pc[r] = "loop" /\ o_idx[r] \in 1..Len(OvWorksheets)

(* the for loop goes to the next worksheet, or to save_data_to_cache *)
OvStep(r) ==
    /\ o_idx' = [o_idx EXCEPT ![r] = @ + 1]
    /\ o_pc' = [o_pc EXCEPT ![r] =
                   IF o_idx[r] + 1 > Len(OvWorksheets) THEN "open" ELSE "loop"]

OvCacheHit(r) ==
    /\ OvInLoop(r)
    /\ HasKey(o_global_cache[r], OvWorksheets[o_idx[r]])
    /\ OvStep(r)
    /\ UNCHANGED <<o_file, o_global_cache, o_fetched, o_writes>>
    /\ OvOthers

OvLive(r) ==
    /\ OvInLoop(r)
    /\ ~HasKey(o_global_cache[r], OvWorksheets[o_idx[r]])
    /\ \E sheet_data \in OvSheetChoices :
         o_global_cache' =
             [o_global_cache EXCEPT ![r] =
                 JDict(SetItem(@.v, OvWorksheets[o_idx[r]], sheet_data))]
    /\ o_fetched' = [o_fetched EXCEPT ![r] = @ \cup {OvWorksheets[o_idx[r]]}]
    /\ OvStep(r)
    /\ UNCHANGED <<o_file, o_writes>>
    /\ OvOthers

(* get_all_values raised: except Exception ... continue *)
OvFail(r) ==
    /\ OvInLoop(r)
    /\ ~HasKey(o_global_cache[r], OvWorksheets[o_idx[r]])
    /\ OvStep(r)
    /\ UNCHANGED <<o_file, o_global_cache, o_fetched, o_writes>>
    /\ OvOthers

(* with open(filepath, 'w', encoding='utf-8') as f: *)
OvOpen(r) ==
    /\ o_pc[r] = "open"
    /\ o_file' = TextFile(<<>>)
    /\ o_pc' = [o_pc EXCEPT ![r] = "write"]
    /\ UNCHANGED <<o_global_cache, o_idx, o_fetched, o_writes>>
    /\ OvOthers

(* json.dump(cache_data, f, indent=4), and the flush of the with block *)
OvWrite(r) ==
    /\ o_pc[r] = "write"
    /\ LET text == json_dump(o_global_cache[r]) IN
         /\ o_file' = TextFile(Overlay(o_file.text, text))
         /\ o_writes' = Append(o_writes, [run |-> r, text |-> text])
    /\ o_pc' = [o_pc EXCEPT ![r] = "done"]
    /\ UNCHANGED <<o_global_cache, o_idx, o_fetched>>
    /\ OvOthers

NextOverlap ==
    \E r \in Runs :
        \/ OvLoad(r) \/ OvAuthFail(r) \/ OvAuthOk(r)
        \/ OvCacheHit(r) \/ OvLive(r) \/ OvFail(r)
        \/ OvOpen(r) \/ OvWrite(r)

SpecOverlap == InitOverlap /\ [][NextOverlap]_vars

-----------------------------------------------------------------------------
(* Properties of SpecOverlap                                               *)

OvAllDone == \A r \in Runs : o_pc[r] = "done"

(* a sheet one process fetched is not in what the file gives back *)
OvLostUpdate ==
    /\ OvAllDone
    /\ \E r \in Runs : \E name \in o_fetched[r] : ~HasKey(load_text(o_file), name)

(* C26: two fetch runs that overlap on the same cache file are not         *)
(* isolated: each writes its whole in-memory snapshot, and the file ends   *)
(* up holding exactly the snapshot of the run that wrote last (so that a   *)
(* sheet only the other run fetched can be missing from the final cache).  *)
C26_LastWriterWins ==
    /\ \A k \in 1..Len(o_writes) :
           o_writes[k].text = json_dump(o_global_cache[o_writes[k].run])
    /\ (OvAllDone /\ o_writes # <<>>) =>
           o_file = TextFile(o_writes[Len(o_writes)].text)

-----------------------------------------------------------------------------
(* Properties of SpecReportLoop: what each answer does                     *)

(* the answer is the quit sentinel, in either case *)
IsQuit(answer) == Len(answer) = 1 /\ answer[1] \in {"q", "Q"}

(* the answer is a whole number from 1 to 31 *)
IsDay(answer) ==
    /\ ~IsQuit(answer)
    /\ int(answer).ok
    /\ int(answer).value \in 1..31

(* C29: the interactive report loop calls aggregation only with a target   *)
(* day in 1..31: any other integer or non-numeric input is rejected and    *)
(* prompted again without aggregating, and the loop ends exactly when the  *)
(* quit sentinel 'q' is entered, without aggregating for it.               *)
C29_OnlyValidDaysAggregated ==
    [][(prog = "cli_master" /\ pc = "reporting") =>
          \E answer \in Answers :
              \/ /\ IsQuit(answer)
                 /\ pc' = "done"
                 /\ UNCHANGED <<target_day_number, aggregated_data, terminal>>
              \/ /\ IsDay(answer)
                 /\ pc' = "reporting"
                 /\ target_day_number' = int(answer).value
                 /\ aggregated_data' =
                        aggregate_report_data(
                            Items(report_cache, DictOrder(report_cache)),
                            int(answer).value, today')
                 /\ terminal' =
                        format_and_print_terminal_report(
                            aggregated_data', int(answer).value).lines
              \/ /\ ~IsQuit(answer) /\ ~IsDay(answer)
                 /\ pc' = "reporting"
                 /\ UNCHANGED <<target_day_number, aggregated_data>>
                 /\ terminal' = <<Line("input_error", <<>>, 0)>>
      ]_vars

(* a day was reported, then an answer was refused, then 'q' ended the loop *)
C29_Witness ==
    /\ prog = "cli_master" /\ pc = "done"
    /\ target_day_number \in 1..31
    /\ aggregated_data # <<>>
    /\ terminal = <<Line("input_error", <<>>, 0)>>

-----------------------------------------------------------------------------
(* Properties of Spec: the counters of data_fetch_script                   *)

(* sheets fetched + sheets loaded from the cache + sheets skipped for error *)
Counted(rep) ==
    rep.sheets_processed + rep.sheets_loaded_from_cache
        + rep.sheets_skipped_error

(* C30: at the end of the data_fetch_script run the counters partition the *)
(* sheet list: sheets fetched + sheets loaded from cache + sheets skipped  *)
(* for error equals the total number of worksheets, and each worksheet     *)
(* increments exactly one of the three.                                    *)
C30_CountersPartition ==
    /\ [](prog = "data_fetch_script" =>
            /\ Counted(report) = Len(handled)
            /\ report.sheets_processed = Fetches
            /\ report.sheets_skipped_error = Failures
            /\ report.sheets_loaded_from_cache = Hits
            /\ pc \in {"script_save", "script_summary", "done"} =>
                  /\ report.total_sheets = Len(all_worksheets)
                  /\ Counted(report) = report.total_sheets)
    /\ [][(prog = "data_fetch_script" /\ pc = "script_loop") =>
            /\ Counted(report') = Counted(report) + 1
            /\ report'.sheets_processed >= report.sheets_processed
            /\ report'.sheets_loaded_from_cache >= report.sheets_loaded_from_cache
            /\ report'.sheets_skipped_error >= report.sheets_skipped_error
         ]_vars

(* a finished run: one sheet came from the cache, the fetch of the other failed *)
C30_Witness ==
    /\ prog = "data_fetch_script" /\ pc = "done"
    /\ report.total_sheets = 2
    /\ report.sheets_loaded_from_cache = 1
    /\ report.sheets_skipped_error = 1
    /\ report.sheets_processed = 0

=============================================================================
